---- MODULE Spec2Model ----
(***************************************************************************)
(* Model of the lxcri container lifecycle coordinator.                     *)
(*                                                                         *)
(* Two specifications share this module:                                   *)
(*   Spec      - the lifecycle: the runtime (Create, Start, Kill, Delete)  *)
(*               interleaved with the monitor, the init process and the    *)
(*               user process of every container.                          *)
(*   SpecProbe - the pure status derivation (Container.state and           *)
(*               Container.getContainerInitState) applied to every         *)
(*               engine state / init pid / cmdline outcome.                *)
(***************************************************************************)
EXTENDS Integers, Sequences, FiniteSets, TLC

(***************************************************************************)
(* OCI container states (specs.ContainerState).                            *)
(***************************************************************************)
StateCreating == "creating"
StateCreated == "created"
StateRunning == "running"
StateStopped == "stopped"

(***************************************************************************)
(* Engine states (lxc.State).  INVALID stands for any value outside the    *)
(* eight named states, e.g. the zero value of lxc.State.                   *)
(***************************************************************************)
LxcStates ==
  {"STOPPED", "STARTING", "RUNNING", "STOPPING", "ABORTING", "FREEZING", "FROZEN", "THAWED"}

AnyLxcState == LxcStates \cup {"INVALID"}

(***************************************************************************)
(* A byte string is a sequence of chunks; NUL is the chunk for one zero    *)
(* byte, any other chunk is a run of printable bytes.                      *)
(***************************************************************************)
NUL == "\\000"

ExecInitPath == "/.lxcri/lxcri-init"

\* the Go literal "/.lxcri/lxcri-init\000"
InitCmdline == <<ExecInitPath, NUL>>

\* cmdline of the container process the tests run (/lxcri-test)
UserCmdline == <<"/lxcri-test", NUL>>

Cmdlines ==
  { <<>>,
    <<ExecInitPath>>,
    InitCmdline,
    <<ExecInitPath, NUL, NUL>>,
    <<ExecInitPath, NUL, "arg", NUL>>,
    <<"lxcri-init", NUL>>,
    UserCmdline }

ReadErrors == {"ENOENT", "ESRCH", "EACCES"}

\* outcomes of os.ReadFile("/proc/<initPid>/cmdline")
ReadOutcomes ==
  [err : {"nil"}, data : Cmdlines] \cup [err : ReadErrors, data : {<<>>}]

\* largest init pid of the probe inputs
MaxInitPid == 2

InitPids == (0 - 1) .. MaxInitPid

Result(status, err) == [status |-> status, err |-> err]

(***************************************************************************)
(* Container.getContainerInitState: initPid is LinuxContainer.InitPid(),   *)
(* read the outcome of reading /proc/<initPid>/cmdline.                    *)
(***************************************************************************)
\* faulty variant: compares the cmdline with the path without the NUL
getContainerInitState_noNul(initPid, read) ==
  IF initPid < 1 THEN Result(StateStopped, "nil")
  ELSE IF read.err # "nil" THEN Result(StateStopped, "nil")
  ELSE IF read.data = <<ExecInitPath>> THEN Result(StateCreated, "nil")
  ELSE Result(StateRunning, "nil")

\* faulty variant: takes init pid 0 for a process
getContainerInitState_pidZero(initPid, read) ==
  IF initPid < 0 THEN Result(StateStopped, "nil")
  ELSE IF read.err # "nil" THEN Result(StateStopped, "nil")
  ELSE IF read.data = InitCmdline THEN Result(StateCreated, "nil")
  ELSE Result(StateRunning, "nil")

getContainerInitState(initPid, read) ==
  IF initPid < 1 THEN Result(StateStopped, "nil")
  ELSE IF read.err # "nil" THEN Result(StateStopped, "nil")
  ELSE IF read.data = InitCmdline THEN Result(StateCreated, "nil")
  ELSE Result(StateRunning, "nil")

(***************************************************************************)
(* Container.state: the OCI status for engine state s.                     *)
(***************************************************************************)
\* faulty variant: reports a STARTING container as stopped
state_startingStopped(s, initPid, read) ==
  CASE s \in {"STOPPED", "STARTING"} -> Result(StateStopped, "nil")
    [] s \in {"RUNNING", "STOPPING", "ABORTING", "FREEZING", "FROZEN", "THAWED"} ->
         getContainerInitState(initPid, read)
    [] OTHER -> Result(StateStopped, "unsupported lxc container state")

state(s, initPid, read) ==
  CASE s = "STOPPED" -> Result(StateStopped, "nil")
    [] s = "STARTING" -> Result(StateCreating, "nil")
    [] s \in {"RUNNING", "STOPPING", "ABORTING", "FREEZING", "FROZEN", "THAWED"} ->
         getContainerInitState(initPid, read)
    [] OTHER -> Result(StateStopped, "unsupported lxc container state")

(***************************************************************************)
(* Lifecycle model.                                                        *)
(***************************************************************************)
IDs == {"c1", "c2"}

\* the container the whole lifecycle is run with
LifecycleIDs == {"c1"}

\* signals the caller passes to Kill
Signals == {"SIGKILL", "SIGUSR1"}

\* largest process id the host hands out to a monitor process
MaxPid == 3

MonitorPids == 2 .. MaxPid

\* process images of the init process that show the sentinel cmdline
Sentinel == {"opening", "reading", "eof"}

InitLive == Sentinel \cup {"user"}

VARIABLES
  dir,        \* dir[id]: the runtime directory <Root>/<id> exists
  files,      \* files[id]: the files in the runtime directory
  snap,       \* snap[id]: the Container encoded in lxcri.json (Pid, CreatedAt)
  mon,        \* mon[id]: monitor process lxcri-start: none, alive, zombie, gone
  monPid,     \* monPid[id]: process id of that monitor process
  lxcState,   \* lxcState[id]: what LinuxContainer.State() reports
  init,       \* init[id]: the container's init process
  fifoOfInit, \* fifoOfInit[id]: init's FIFO is the file <rundir>/syncfifo
  cgroup,     \* cgroup[id]: the cgroup path the processes of id were put in
  released,   \* released[id]: a writer of init's FIFO has been opened and closed
  handle,     \* handle[id]: the *Container the caller got from Create
  op,         \* the runtime operation in progress
  last,       \* the runtime operation that returned last
  probeIn,    \* SpecProbe: engine state, init pid and cmdline outcome
  probeOut    \* SpecProbe: results of state and getContainerInitState

lvars == <<dir, files, snap, mon, monPid, lxcState, init, fifoOfInit, cgroup, released, handle, op, last>>

envvars == <<dir, files, snap, mon, monPid, lxcState, init, fifoOfInit, cgroup, released>>

pvars == <<probeIn, probeOut>>

vars == <<lvars, pvars>>

(***************************************************************************)
(* Container configurations and their validation.  Of a ContainerConfig    *)
(* the model keeps the ContainerID, Spec.Root ("nil", or its Path),        *)
(* Spec.Process (nil, or its Args and Cwd) and   , of Spec.Linux.Namespaces,*)
(* the entry of type mount and the entry of type pid: "absent" when the    *)
(* list has no such entry, otherwise what its Path is: "" (a new           *)
(* namespace), "host" (the namespace the runtime is in), "other" (another  *)
(* namespace), "bad" (a path that cannot be examined).                     *)
(***************************************************************************)
NsEntries == {"absent", "", "host", "other", "bad"}

\* Spec.Process is nil
NilProcess == [nil |-> TRUE, Args |-> <<>>, Cwd |-> ""]

Processes == [nil : {FALSE}, Args : {<<>>, <<"/lxcri-test">>}, Cwd : {"", "/", "/tmp"}]

\* the cgroup path newConfig gives the container id
Slice(id) == id \o ".slice"

Configs ==
  [ContainerID : {""} \cup IDs, Root : {"nil", "", "/rootfs"},
   Process : {NilProcess} \cup Processes, Mount : NsEntries, Pid : NsEntries,
   CgroupsPath : {Slice(id) : id \in IDs}]

\* where no configuration is at hand
NoConfig ==
  [ContainerID |-> "", Root |-> "nil", Process |-> NilProcess,
   Mount |-> "absent", Pid |-> "absent", CgroupsPath |-> ""]

\* the configuration runtime_test.go makes with newConfig
TestConfig(id) ==
  [ContainerID |-> id, Root |-> "/rootfs",
   Process |-> [nil |-> FALSE, Args |-> <<"/lxcri-test">>, Cwd |-> "/"],
   Mount |-> "", Pid |-> "", CgroupsPath |-> Slice(id)]

\* TestEmptyNamespaces: the namespace list is cleared
EmptyNamespacesConfig(id) == [TestConfig(id) EXCEPT !.Mount = "absent", !.Pid = "absent"]

\* TestSharedPIDNamespace: the pid entry names the runtime's pid namespace
SharedPIDConfig(id) == [TestConfig(id) EXCEPT !.Pid = "host"]

\* TestNonEmptyCgroup: the second container is given the cgroup path of the first
NonEmptyCgroupConfig(id, first) == [TestConfig(id) EXCEPT !.CgroupsPath = Slice(first)]

\* the configurations the lifecycle is run with
LifecycleConfigs ==
  UNION {{TestConfig(id), EmptyNamespacesConfig(id), SharedPIDConfig(id)} : id \in LifecycleIDs}

\* isHostNamespaceShared for the entry of one namespace type
isHostNamespaceShared(entry) ==
  [yes |-> entry \in {"absent", "host"},
   err |-> IF entry = "bad" THEN "failed to examine namespace" ELSE "nil"]

\* result of a validation: the error, the configuration as the call leaves
\* it, and what was logged at info level about namespaces
Checked(err, cfg, log) == [err |-> err, cfg |-> cfg, log |-> log]

\* Spec.Process.Cwd defaulted
WithCwd(cfg) == [cfg EXCEPT !.Process.Cwd = IF @ = "" THEN "/" ELSE @]

\* faulty variant: tests the pid namespace where the mount namespace is meant
checkSpec_pidForMount(spec) ==
  IF spec.Root = "nil" THEN Checked("spec.Root is nil", spec, "none")
  ELSE IF spec.Root = "" THEN Checked("empty spec.Root.Path", spec, "none")
  ELSE IF spec.Process.nil THEN Checked("spec.Process is nil", spec, "none")
  ELSE IF spec.Process.Args = <<>> THEN Checked("specs.Process.Args is empty", spec, "none")
  ELSE IF isHostNamespaceShared(spec.Pid).err # "nil"
    THEN Checked(isHostNamespaceShared(spec.Pid).err, WithCwd(spec), "none")
  ELSE IF isHostNamespaceShared(spec.Pid).yes
    THEN Checked("container wants to share the hosts mount namespace", WithCwd(spec), "none")
  ELSE IF isHostNamespaceShared(spec.Mount).err # "nil"
    THEN Checked(isHostNamespaceShared(spec.Mount).err, WithCwd(spec), "none")
  ELSE Checked("nil", WithCwd(spec),
               IF isHostNamespaceShared(spec.Mount).yes THEN "shares host pid namespace" ELSE "none")

\* faulty variant: does not look at Spec.Process.Args
checkSpec_noArgs(spec) ==
  IF spec.Root = "nil" THEN Checked("spec.Root is nil", spec, "none")
  ELSE IF spec.Root = "" THEN Checked("empty spec.Root.Path", spec, "none")
  ELSE IF spec.Process.nil THEN Checked("spec.Process is nil", spec, "none")
  ELSE IF isHostNamespaceShared(spec.Mount).err # "nil"
    THEN Checked(isHostNamespaceShared(spec.Mount).err, WithCwd(spec), "none")
  ELSE IF isHostNamespaceShared(spec.Mount).yes
    THEN Checked("container wants to share the hosts mount namespace", WithCwd(spec), "none")
  ELSE IF isHostNamespaceShared(spec.Pid).err # "nil"
    THEN Checked(isHostNamespaceShared(spec.Pid).err, WithCwd(spec), "none")
  ELSE Checked("nil", WithCwd(spec),
               IF isHostNamespaceShared(spec.Pid).yes THEN "shares host pid namespace" ELSE "none")

\* Runtime.checkSpec
checkSpec(spec) ==
  IF spec.Root = "nil" THEN Checked("spec.Root is nil", spec, "none")
  ELSE IF spec.Root = "" THEN Checked("empty spec.Root.Path", spec, "none")
  ELSE IF spec.Process.nil THEN Checked("spec.Process is nil", spec, "none")
  ELSE IF spec.Process.Args = <<>> THEN Checked("specs.Process.Args is empty", spec, "none")
  ELSE IF isHostNamespaceShared(spec.Mount).err # "nil"
    THEN Checked(isHostNamespaceShared(spec.Mount).err, WithCwd(spec), "none")
  ELSE IF isHostNamespaceShared(spec.Mount).yes
    THEN Checked("container wants to share the hosts mount namespace", WithCwd(spec), "none")
  ELSE IF isHostNamespaceShared(spec.Pid).err # "nil"
    THEN Checked(isHostNamespaceShared(spec.Pid).err, WithCwd(spec), "none")
  ELSE Checked("nil", WithCwd(spec),
               IF isHostNamespaceShared(spec.Pid).yes THEN "shares host pid namespace" ELSE "none")

\* Runtime.checkConfig
checkConfig(cfg) ==
  IF cfg.ContainerID = "" THEN Checked("missing container ID", cfg, "none")
  ELSE checkSpec(cfg)

NilHandle == [nil |-> TRUE, lxc |-> FALSE, Pid |-> 0, CreatedAt |-> FALSE]

NoSnap == [Pid |-> 0, CreatedAt |-> FALSE]

Idle == [name |-> "none", id |-> "none", pc |-> "idle", ctx |-> "live",
         fd |-> "none", obs |-> "none", pid |-> 0, cfg |-> NoConfig,
         wrote |-> {}, state |-> "none"]

NoLast == [name |-> "none", id |-> "none", res |-> "none", status |-> "none",
           sent |-> "none", fd |-> "none", mon |-> "none", force |-> FALSE,
           again |-> FALSE, drain |-> "none", c |-> "none", cfg |-> NoConfig,
           wrote |-> {}, state |-> "none"]

\* the record of a returned operation: its result, and where it applies the
\* container status and the monitor process at the return, the signal
\* handed to the cgroup, Start's FIFO descriptor, Delete's force flag,
\* whether a Delete follows a successful Delete of the same id, how
\* Delete's drainCgroup ended, the *Container Create returned ("nil", a
\* "partial" one or the "created" one), the configuration as Create
\* left it, the bundle files Create wrote and the status it encoded in
\* state.json
Returned(name, id, res) ==
  [name |-> name, id |-> id, res |-> res, status |-> "none", sent |-> "none",
   fd |-> "none", mon |-> "none", force |-> FALSE, again |-> FALSE, drain |-> "none",
   c |-> "none", cfg |-> NoConfig, wrote |-> {}, state |-> "none"]

(***************************************************************************)
(* The engine and /proc as the runtime reads them.                         *)
(***************************************************************************)
\* host process id of a container's init process
ContainerInitPid == 2

\* LinuxContainer.InitPid()
InitPid(id) ==
  IF mon[id] = "alive" /\ lxcState[id] \in {"RUNNING", "STOPPING"} /\ init[id] # "none"
  THEN ContainerInitPid ELSE 0 - 1

\* os.ReadFile("/proc/<initPid>/cmdline")
ReadCmdline(id) ==
  CASE init[id] \in Sentinel -> [err |-> "nil", data |-> InitCmdline]
    [] init[id] = "user" -> [err |-> "nil", data |-> UserCmdline]
    [] OTHER -> [err |-> "ENOENT", data |-> <<>>]

\* Container.ContainerState
ContainerState(id) == state(lxcState[id], InitPid(id), ReadCmdline(id))

\* the init-process probe on container id
InitState(id) == getContainerInitState(InitPid(id), ReadCmdline(id))

(***************************************************************************)
(* Container.isMonitorRunning for a handle with monitor pid p.             *)
(* Wait4(p, WNOHANG) returns p for a child that exited (and reaps it),     *)
(* 0 for a child that runs, ECHILD otherwise; kill(p, 0) then tells        *)
(* whether any process has pid p.                                          *)
(***************************************************************************)
Wait4(p) ==
  IF \E j \in IDs : monPid[j] = p /\ mon[j] = "zombie" THEN [pid |-> p, err |-> "nil"]
  ELSE IF \E j \in IDs : monPid[j] = p /\ mon[j] = "alive" THEN [pid |-> 0, err |-> "nil"]
  ELSE [pid |-> 0 - 1, err |-> "ECHILD"]

\* unix.Kill(p, 0): whether a process with pid p exists
Kill0(p) ==
  IF \E j \in IDs : monPid[j] = p /\ mon[j] \in {"alive", "zombie"} THEN "nil" ELSE "ESRCH"

\* faulty variant: ESRCH from kill(pid, 0) is taken as alive
monitorRunning_esrchAlive(Pid, wait, killErr) ==
  IF Pid < 2 THEN FALSE
  ELSE IF wait.pid = Pid THEN FALSE
  ELSE IF wait.pid = 0 THEN TRUE
  ELSE wait.err = "ECHILD"

\* the decision without the fallback to kill(pid, 0)
monitorRunning_noFallback(Pid, wait, killErr) ==
  IF Pid < 2 THEN FALSE
  ELSE IF wait.pid = Pid THEN FALSE
  ELSE IF wait.pid = 0 THEN TRUE
  ELSE FALSE

\* the decision of isMonitorRunning from the handle's Pid, what Wait4
\* returned and what Kill returned
monitorRunning(Pid, wait, killErr) ==
  IF Pid < 2 THEN FALSE
  ELSE IF wait.pid = Pid THEN FALSE
  ELSE IF wait.pid = 0 THEN TRUE
  ELSE IF wait.err = "ECHILD"
  THEN IF killErr = "nil" THEN TRUE
       ELSE IF killErr = "ESRCH" THEN FALSE
       ELSE FALSE
  ELSE FALSE

isMonitorRunning(p) == monitorRunning(p, Wait4(p), Kill0(p))

\* the monitor table after isMonitorRunning(p): an exited child is reaped
Reaped(p) ==
  [j \in IDs |-> IF p >= 2 /\ monPid[j] = p /\ mon[j] = "zombie" THEN "gone" ELSE mon[j]]

(***************************************************************************)
(* Runtime.Create, up to the launch of the monitor process.                *)
(* cfg is the configuration passed; checkConfig decides whether it is     *)
(* valid.  kind is where the call fails after that: "rootfs" in            *)
(* configureContainer before configureInit made the sync FIFO, "cgroup"    *)
(* in configureContainer after it, "start" in runStartCmd before or at     *)
(* cmd.Start; "ok" launches the monitor with process id p.                 *)
(***************************************************************************)
CreateKinds == {"rootfs", "cgroup", "start", "ok"}

\* process ids no monitor process holds
FreePids == MonitorPids \ {monPid[j] : j \in {i \in IDs : mon[i] \in {"alive", "zombie"}}}

\* Container.create and NewContainer succeeded
Fresh == [nil |-> FALSE, lxc |-> TRUE, Pid |-> 0, CreatedAt |-> FALSE]

\* Container.create failed before NewContainer
NoEngine == [nil |-> FALSE, lxc |-> FALSE, Pid |-> 0, CreatedAt |-> FALSE]

BundleFiles == {"config.json", "hooks.json", "state.json"}

\* Create returns the container c with an error
\* faulty variant: returns nil with the error
CreateFails_nil(cfg, res, h, fs, wrote) ==
  /\ dir' = [dir EXCEPT ![cfg.ContainerID] = TRUE]
  /\ files' = [files EXCEPT ![cfg.ContainerID] = fs]
  /\ last' = [Returned("Create", cfg.ContainerID, res) EXCEPT
                !.c = "nil", !.cfg = checkConfig(cfg).cfg, !.wrote = wrote,
                !.state = IF "state.json" \in wrote
                          THEN ContainerState(cfg.ContainerID).status ELSE "none"]
  /\ UNCHANGED <<snap, mon, monPid, lxcState, init, fifoOfInit, cgroup, released, op, handle>>

\* faulty variant: a failing Create empties the runtime directory
CreateFails_cleans(cfg, res, h, fs, wrote) ==
  /\ handle' = [handle EXCEPT ![cfg.ContainerID] = h]
  /\ dir' = [dir EXCEPT ![cfg.ContainerID] = TRUE]
  /\ files' = [files EXCEPT ![cfg.ContainerID] = {}]
  /\ last' = [Returned("Create", cfg.ContainerID, res) EXCEPT
                !.c = "partial", !.cfg = checkConfig(cfg).cfg, !.wrote = wrote,
                !.state = IF "state.json" \in wrote
                          THEN ContainerState(cfg.ContainerID).status ELSE "none"]
  /\ UNCHANGED <<snap, mon, monPid, lxcState, init, fifoOfInit, cgroup, released, op>>

CreateFails(cfg, res, h, fs, wrote) ==
  /\ handle' = [handle EXCEPT ![cfg.ContainerID] = h]
  /\ dir' = [dir EXCEPT ![cfg.ContainerID] = TRUE]
  /\ files' = [files EXCEPT ![cfg.ContainerID] = fs]
  /\ last' = [Returned("Create", cfg.ContainerID, res) EXCEPT
                !.c = "partial", !.cfg = checkConfig(cfg).cfg, !.wrote = wrote,
                !.state = IF "state.json" \in wrote
                          THEN ContainerState(cfg.ContainerID).status ELSE "none"]
  /\ UNCHANGED <<snap, mon, monPid, lxcState, init, fifoOfInit, cgroup, released, op>>

\* configureCgroup: a cgroup that contains processes is refused
NonEmpty(path) == \E j \in IDs : cgroup[j] = path /\ init[j] \in InitLive

\* faulty variant: takes any cgroup
configureCgroup_any(cfg) == "nil"

configureCgroup(cfg) ==
  IF NonEmpty(cfg.CgroupsPath) THEN "failed to configure cgroups" ELSE "nil"

\* specki.EncodeJSONFile with O_EXCL|O_CREATE in a directory with the files fs
\* faulty variant: truncates a file that exists
EncodeJSONFile_trunc(fs, name) == "nil"

EncodeJSONFile(fs, name) == IF name \in fs THEN "file exists" ELSE "nil"

\* Create writes config.json, hooks.json and, with the state c.State()
\* returns, state.json: the error, the files then, the files it wrote
writeBundle(fs, stateErr) ==
  IF EncodeJSONFile(fs, "config.json") # "nil"
  THEN [err |-> EncodeJSONFile(fs, "config.json"), fs |-> fs, wrote |-> {}]
  ELSE IF EncodeJSONFile(fs, "hooks.json") # "nil"
  THEN [err |-> EncodeJSONFile(fs, "hooks.json"), fs |-> fs \cup {"config.json"},
        wrote |-> {"config.json"}]
  ELSE IF stateErr # "nil"
  THEN [err |-> "failed go get container status", fs |-> fs \cup {"config.json", "hooks.json"},
        wrote |-> {"config.json", "hooks.json"}]
  ELSE IF EncodeJSONFile(fs, "state.json") # "nil"
  THEN [err |-> EncodeJSONFile(fs, "state.json"), fs |-> fs \cup {"config.json", "hooks.json"},
        wrote |-> {"config.json", "hooks.json"}]
  ELSE [err |-> "nil", fs |-> fs \cup BundleFiles, wrote |-> BundleFiles]

\* cmd.Start: the engine refuses a second monitor for a container whose
\* monitor is alive, and that process exits at once
Launch(id, p, path) ==
  IF mon[id] = "alive"
  THEN UNCHANGED <<mon, monPid, lxcState, init, fifoOfInit, cgroup, released>>
  ELSE /\ mon' = [mon EXCEPT ![id] = "alive"]
       /\ cgroup' = [cgroup EXCEPT ![id] = path]
       /\ monPid' = [monPid EXCEPT ![id] = p]
       /\ lxcState' = [lxcState EXCEPT ![id] = "STOPPED"]
       /\ init' = [init EXCEPT ![id] = "none"]
       /\ fifoOfInit' = [fifoOfInit EXCEPT ![id] = FALSE]
       /\ released' = [released EXCEPT ![id] = FALSE]

Create(cfg, kind, p) ==
  /\ op = Idle
  /\ IF checkConfig(cfg).err # "nil"
     THEN /\ last' = [Returned("Create", cfg.ContainerID, checkConfig(cfg).err) EXCEPT
                        !.c = "nil", !.cfg = checkConfig(cfg).cfg]
          /\ UNCHANGED <<envvars, handle, op>>
     ELSE IF "config" \in files[cfg.ContainerID]
       THEN CreateFails(cfg, "file exists", NoEngine, files[cfg.ContainerID], {})
     ELSE IF kind = "rootfs"
       THEN CreateFails(cfg, "failed to configure container", Fresh,
                        files[cfg.ContainerID] \cup {"config"}, {})
     ELSE IF kind = "cgroup"
       THEN CreateFails(cfg, "failed to configure container", Fresh,
                        files[cfg.ContainerID] \cup {"config", "syncfifo"}, {})
     ELSE IF configureCgroup(cfg) # "nil"
       THEN CreateFails(cfg, configureCgroup(cfg), Fresh,
                        files[cfg.ContainerID] \cup {"config", "syncfifo"}, {})
     ELSE IF writeBundle(files[cfg.ContainerID], ContainerState(cfg.ContainerID).err).err # "nil"
       THEN CreateFails(cfg,
                        writeBundle(files[cfg.ContainerID],
                                    ContainerState(cfg.ContainerID).err).err,
                        Fresh,
                        writeBundle(files[cfg.ContainerID],
                                    ContainerState(cfg.ContainerID).err).fs
                          \cup {"config", "syncfifo"},
                        writeBundle(files[cfg.ContainerID],
                                    ContainerState(cfg.ContainerID).err).wrote)
     ELSE IF kind = "start"
       THEN CreateFails(cfg, "failed to run container process", Fresh,
                        files[cfg.ContainerID] \cup {"config", "syncfifo"} \cup BundleFiles,
                        BundleFiles)
     ELSE /\ p \in FreePids
          /\ handle' = [handle EXCEPT ![cfg.ContainerID] = Fresh]
          /\ dir' = [dir EXCEPT ![cfg.ContainerID] = TRUE]
          /\ files' = [files EXCEPT ![cfg.ContainerID] =
                         @ \cup {"config", "syncfifo"} \cup BundleFiles]
          /\ Launch(cfg.ContainerID, p, cfg.CgroupsPath)
          /\ op' = [Idle EXCEPT !.name = "Create", !.id = cfg.ContainerID,
                                !.pc = "waitCreated", !.pid = p,
                                !.cfg = checkConfig(cfg).cfg, !.wrote = BundleFiles,
                                !.state = ContainerState(cfg.ContainerID).status]
          /\ UNCHANGED <<snap, last>>

(***************************************************************************)
(* One round of Container.waitCreated, and on its success the rest of      *)
(* Runtime.runStartCmd and Runtime.Create.                                 *)
(***************************************************************************)
CreateReturns(id, res) ==
  /\ op' = Idle
  /\ last' = [Returned("Create", id, res) EXCEPT
                !.mon = mon[id], !.status = ContainerState(id).status,
                !.c = IF res = "ok" THEN "created" ELSE "partial", !.cfg = op.cfg,
                !.wrote = op.wrote, !.state = op.state]

\* faulty variant: the snapshot is written although the rendezvous failed
runStartCmd_noRendezvous(id) ==
  /\ op.name = "Create" /\ op.id = id /\ op.pc = "waitCreated"
  /\ UNCHANGED <<dir, monPid, lxcState, init, fifoOfInit, released, handle>>
  /\ IF op.ctx = "done"
     THEN /\ CreateReturns(id, "context done")
          /\ UNCHANGED <<files, snap, mon>>
     ELSE /\ mon' = Reaped(handle[id].Pid)
          /\ CreateReturns(id, "monitor already died")
          /\ files' = [files EXCEPT ![id] = files[id] \cup {"lxcri.json"}]
          /\ snap' = [snap EXCEPT ![id] = [Pid |-> handle[id].Pid, CreatedAt |-> FALSE]]

runStartCmd(id) ==
  /\ op.name = "Create" /\ op.id = id /\ op.pc = "waitCreated"
  /\ UNCHANGED <<dir, monPid, lxcState, init, fifoOfInit, released>>
  /\ IF op.ctx = "done"
     THEN /\ CreateReturns(id, "context done")
          /\ UNCHANGED <<files, snap, mon, handle>>
     ELSE /\ mon' = Reaped(handle[id].Pid)
          /\ IF ~isMonitorRunning(handle[id].Pid)
             THEN /\ CreateReturns(id, "monitor already died")
                  /\ UNCHANGED <<files, snap, handle>>
             ELSE IF lxcState[id] # "RUNNING"
             THEN UNCHANGED <<files, snap, handle, op, last>>
             ELSE IF InitState(id).status # StateCreated
             THEN /\ CreateReturns(id, "unexpected init state")
                  /\ UNCHANGED <<files, snap, handle>>
             ELSE /\ handle' = [handle EXCEPT ![id].Pid = op.pid, ![id].CreatedAt = TRUE]
                  /\ IF "lxcri.json" \in files[id]
                     THEN /\ CreateReturns(id, "file exists")
                          /\ UNCHANGED <<files, snap>>
                     ELSE /\ CreateReturns(id, "ok")
                          /\ files' = [files EXCEPT ![id] = files[id] \cup {"lxcri.json"}]
                          /\ snap' = [snap EXCEPT ![id] = [Pid |-> op.pid, CreatedAt |-> TRUE]]

(***************************************************************************)
(* Runtime.Start.  The caller passes the handle it holds for id; a handle  *)
(* without an engine handle has no status and is not passed.               *)
(***************************************************************************)
Usable(id) == ~handle[id].nil /\ handle[id].lxc

StartReturns(id, res) ==
  /\ op' = Idle
  /\ last' = [Returned("Start", id, res) EXCEPT
                !.status = ContainerState(id).status, !.fd = op.fd, !.mon = mon[id]]

\* faulty variant: goes on to the FIFO with any status
Start_noCheck(id) ==
  /\ op = Idle
  /\ Usable(id)
  /\ UNCHANGED <<envvars, handle>>
  /\ IF ContainerState(id).err # "nil"
     THEN StartReturns(id, "failed to get container state")
     ELSE /\ op' = [Idle EXCEPT !.name = "Start", !.id = id, !.pc = "open",
                                !.obs = ContainerState(id).status]
          /\ UNCHANGED last

Start(id) ==
  /\ op = Idle
  /\ Usable(id)
  /\ UNCHANGED <<envvars, handle>>
  /\ IF ContainerState(id).err # "nil"
     THEN StartReturns(id, "failed to get container state")
     ELSE IF ContainerState(id).status # StateCreated
     THEN StartReturns(id, "invalid container state")
     ELSE /\ op' = [Idle EXCEPT !.name = "Start", !.id = id, !.pc = "open", !.obs = StateCreated]
          /\ UNCHANGED last

\* Container.start: os.OpenFile(syncfifo, O_WRONLY) returns once a reader
\* has the FIFO open or waits in its own open
OpenFifo(id) ==
  /\ op.name = "Start" /\ op.id = id /\ op.pc = "open"
  /\ UNCHANGED <<dir, files, snap, mon, monPid, lxcState, fifoOfInit, released, handle>>
  /\ IF "syncfifo" \notin files[id]
     THEN /\ StartReturns(id, "no such file")
          /\ UNCHANGED init
     ELSE /\ fifoOfInit[id]
          /\ init[id] \in Sentinel
          /\ init' = [init EXCEPT ![id] = IF @ = "opening" THEN "reading" ELSE @]
          /\ op' = [op EXCEPT !.pc = "close", !.fd = "open"]
          /\ UNCHANGED last

\* Container.start: fifo.Close; the reader then reads end-of-file
CloseFifo(id) ==
  /\ op.name = "Start" /\ op.id = id /\ op.pc = "close"
  /\ init' = [init EXCEPT ![id] = IF @ = "reading" THEN "eof" ELSE @]
  /\ released' = [released EXCEPT ![id] = TRUE]
  /\ op' = [op EXCEPT !.pc = "wait", !.fd = "closed"]
  /\ UNCHANGED <<dir, files, snap, mon, monPid, lxcState, fifoOfInit, handle, last>>

\* one round of Container.waitStarted
waitStarted(id) ==
  /\ op.name = "Start" /\ op.id = id /\ op.pc = "wait"
  /\ UNCHANGED <<dir, files, snap, monPid, lxcState, init, fifoOfInit, released, handle>>
  /\ IF op.ctx = "done"
     THEN /\ StartReturns(id, "context done")
          /\ UNCHANGED mon
     ELSE /\ mon' = Reaped(handle[id].Pid)
          /\ IF ~isMonitorRunning(handle[id].Pid)
             THEN StartReturns(id, "ok")
             ELSE IF InitState(id).status # StateCreated
             THEN StartReturns(id, "ok")
             ELSE UNCHANGED <<op, last>>

\* the caller's context is cancelled or its deadline expires
CtxCancel ==
  /\ op.pc \in {"waitCreated", "open", "close", "wait"}
  /\ op.ctx = "live"
  /\ op' = [op EXCEPT !.ctx = "done"]
  /\ UNCHANGED <<envvars, handle, last>>

(***************************************************************************)
(* Runtime.Kill and Container.kill.  cgerr is what killCgroup returns.     *)
(***************************************************************************)
CgroupErrors == {"nil", "ENOENT", "ENODEV", "EACCES"}

\* the containers whose processes are in the cgroup of container id
Members(id) == {id} \cup {j \in IDs : cgroup[id] # "none" /\ cgroup[j] = cgroup[id]}

\* killCgroup: the processes after sig reached the cgroup of container id
Signalled(id, sig, cgerr) ==
  [j \in IDs |->
     IF cgerr = "nil" /\ sig = "SIGKILL" /\ j \in Members(id) /\ init[j] \in InitLive
     THEN "dead" ELSE init[j]]

\* faulty variant: only a nil error of killCgroup is success
kill_strict(cgerr) == IF cgerr = "nil" THEN "ok" ELSE "failed to kill group"

\* Container.kill: the error it returns
kill(cgerr) == IF cgerr \in {"nil", "ENOENT", "ENODEV"} THEN "ok" ELSE "failed to kill group"

\* faulty variant: refuses the status created instead of stopped
Kill_refuseCreated(id, sig, cgerr) ==
  /\ op = Idle
  /\ Usable(id)
  /\ UNCHANGED <<dir, files, snap, mon, monPid, lxcState, fifoOfInit, released, handle, op>>
  /\ IF ContainerState(id).err # "nil"
     THEN /\ last' = Returned("Kill", id, "unsupported lxc container state")
          /\ UNCHANGED init
     ELSE IF ContainerState(id).status = StateCreated
     THEN /\ last' = [Returned("Kill", id, "container already stopped")
                        EXCEPT !.status = ContainerState(id).status]
          /\ UNCHANGED init
     ELSE /\ last' = [Returned("Kill", id, kill(cgerr))
                        EXCEPT !.status = ContainerState(id).status, !.sent = sig]
          /\ init' = Signalled(id, sig, cgerr)

Kill(id, sig, cgerr) ==
  /\ op = Idle
  /\ Usable(id)
  /\ UNCHANGED <<dir, files, snap, mon, monPid, lxcState, fifoOfInit, released, handle, op>>
  /\ IF ContainerState(id).err # "nil"
     THEN /\ last' = Returned("Kill", id, "unsupported lxc container state")
          /\ UNCHANGED init
     ELSE IF ContainerState(id).status = StateStopped
     THEN /\ last' = [Returned("Kill", id, "container already stopped")
                        EXCEPT !.status = StateStopped]
          /\ UNCHANGED init
     ELSE /\ last' = [Returned("Kill", id, kill(cgerr))
                        EXCEPT !.status = ContainerState(id).status, !.sent = sig]
          /\ init' = Signalled(id, sig, cgerr)

(***************************************************************************)
(* Runtime.Load and Runtime.Delete.                                        *)
(***************************************************************************)
\* the error of Runtime.Load; on "nil" the loaded handle carries snap[id]
Load(id) ==
  IF ~dir[id] THEN "ErrNotExist"
  ELSE IF "lxcri.json" \notin files[id] THEN "failed to load container config"
  ELSE IF "config" \notin files[id] THEN "failed to load lxc config file"
  ELSE "nil"

\* os.RemoveAll of the runtime directory; a reader of the removed FIFO no
\* longer meets a writer of a FIFO created later under the same path
RemoveAll(id) ==
  /\ dir' = [dir EXCEPT ![id] = FALSE]
  /\ files' = [files EXCEPT ![id] = {}]
  /\ snap' = [snap EXCEPT ![id] = NoSnap]
  /\ fifoOfInit' = [fifoOfInit EXCEPT ![id] = FALSE]

\* drainCgroup with SIGKILL: when it succeeds no process of the container's
\* cgroup survives, when it fails (deadline) the processes are as they were
Drained(id, procs) ==
  [j \in IDs |-> IF j \in Members(id) /\ procs[j] \in InitLive THEN "dead" ELSE procs[j]]

DeleteReturns(id, force, res, status, sent) ==
  last' = [Returned("Delete", id, res) EXCEPT
            !.force = force, !.status = status, !.sent = sent,
            !.again = (last.name = "Delete" /\ last.id = id /\ last.res = "ok")]

\* Delete of a container that Load cannot load
\* faulty variant: reports success and leaves the directory
DeleteUnloadable_keepsDir(id, force, rmOk) ==
  /\ DeleteReturns(id, force, "ok", "none", "none")
  /\ UNCHANGED <<dir, files, snap, fifoOfInit>>

DeleteUnloadable(id, force, rmOk) ==
  IF rmOk
  THEN /\ RemoveAll(id)
       /\ DeleteReturns(id, force, "ok", "none", "none")
  ELSE /\ DeleteReturns(id, force, "unlinkat failed", "none", "none")
       /\ UNCHANGED <<dir, files, snap, fifoOfInit>>

\* Delete of a loaded container that is stopped or was killed: drainCgroup
\* (its error is logged only), then Container.destroy
DrainAndDestroy(id, force, cgerr, drainOk, rmOk) ==
  /\ init' = IF drainOk THEN Drained(id, init)
             ELSE IF ContainerState(id).status # StateStopped
             THEN Signalled(id, "SIGKILL", cgerr) ELSE init
  /\ IF rmOk
     THEN /\ RemoveAll(id)
          /\ mon' = [mon EXCEPT ![id] = IF @ = "alive" THEN "zombie" ELSE @]
          /\ lxcState' = [lxcState EXCEPT ![id] = "STOPPED"]
     ELSE UNCHANGED <<dir, files, snap, mon, lxcState, fifoOfInit>>
  /\ last' = [Returned("Delete", id, IF rmOk THEN "ok" ELSE "failed to destroy container")
                EXCEPT !.force = force,
                       !.status = ContainerState(id).status,
                       !.sent = IF ContainerState(id).status # StateStopped
                                THEN "SIGKILL" ELSE "none",
                       !.drain = IF drainOk THEN "ok" ELSE "failed",
                       !.again = (last.name = "Delete" /\ last.id = id /\ last.res = "ok")]

Delete(id, force, cgerr, drainOk, rmOk) ==
  /\ op = Idle
  /\ UNCHANGED <<monPid, released, handle, op>>
  /\ IF Load(id) = "ErrNotExist"
     THEN /\ DeleteReturns(id, force, "ok", "none", "none")
          /\ UNCHANGED <<dir, files, snap, mon, lxcState, init, fifoOfInit>>
     ELSE IF Load(id) # "nil"
     THEN /\ DeleteUnloadable(id, force, rmOk)
          /\ UNCHANGED <<mon, lxcState, init>>
     ELSE IF ContainerState(id).err # "nil"
     THEN /\ DeleteReturns(id, force, "unsupported lxc container state", "none", "none")
          /\ UNCHANGED <<dir, files, snap, mon, lxcState, init, fifoOfInit>>
     ELSE IF ContainerState(id).status # StateStopped /\ ~force
     THEN /\ DeleteReturns(id, force, "container is not stopped", ContainerState(id).status, "none")
          /\ UNCHANGED <<dir, files, snap, mon, lxcState, init, fifoOfInit>>
     ELSE IF ContainerState(id).status # StateStopped /\ kill(cgerr) # "ok"
     THEN /\ DeleteReturns(id, force, "failed to kill container", ContainerState(id).status, "SIGKILL")
          /\ init' = Signalled(id, "SIGKILL", cgerr)
          /\ UNCHANGED <<dir, files, snap, mon, lxcState, fifoOfInit>>
     ELSE DrainAndDestroy(id, force, cgerr, drainOk, rmOk)

(***************************************************************************)
(* The processes: the monitor lxcri-start drives the engine state, the     *)
(* init lxcri-init opens the FIFO for reading and executes the user        *)
(* process after it read end-of-file.                                      *)
(***************************************************************************)
MonitorStarting(id) ==
  /\ mon[id] = "alive" /\ lxcState[id] = "STOPPED" /\ init[id] = "none"
  /\ lxcState' = [lxcState EXCEPT ![id] = "STARTING"]
  /\ UNCHANGED <<dir, files, snap, mon, monPid, init, fifoOfInit, released, handle, op, last>>

MonitorRunning(id) ==
  /\ mon[id] = "alive" /\ lxcState[id] = "STARTING"
  /\ lxcState' = [lxcState EXCEPT ![id] = "RUNNING"]
  /\ init' = [init EXCEPT ![id] = IF "syncfifo" \in files[id] THEN "opening" ELSE "dead"]
  /\ fifoOfInit' = [fifoOfInit EXCEPT ![id] = "syncfifo" \in files[id]]
  /\ UNCHANGED <<dir, files, snap, mon, monPid, released, handle, op, last>>

\* lxcri-init leaves the sentinel command line: exec of the user process
InitExec(id) ==
  /\ init[id] = "eof"
  /\ init' = [init EXCEPT ![id] = "user"]
  /\ UNCHANGED <<dir, files, snap, mon, monPid, lxcState, fifoOfInit, released, handle, op, last>>

\* the init or the user process exits or is killed from outside
ProcessExits(id) ==
  /\ init[id] \in InitLive
  /\ init' = [init EXCEPT ![id] = "dead"]
  /\ UNCHANGED <<dir, files, snap, mon, monPid, lxcState, fifoOfInit, released, handle, op, last>>

MonitorStopping(id) ==
  /\ mon[id] = "alive" /\ lxcState[id] = "RUNNING" /\ init[id] = "dead"
  /\ lxcState' = [lxcState EXCEPT ![id] = "STOPPING"]
  /\ UNCHANGED <<dir, files, snap, mon, monPid, init, fifoOfInit, released, handle, op, last>>

MonitorExit(id) ==
  /\ mon[id] = "alive" /\ lxcState[id] = "STOPPING"
  /\ mon' = [mon EXCEPT ![id] = "zombie"]
  /\ lxcState' = [lxcState EXCEPT ![id] = "STOPPED"]
  /\ UNCHANGED <<dir, files, snap, monPid, init, fifoOfInit, released, handle, op, last>>

\* the monitor is killed: the engine reports STOPPED, the init dies with it
MonitorDies(id) ==
  /\ mon[id] = "alive"
  /\ mon' = [mon EXCEPT ![id] = "zombie"]
  /\ lxcState' = [lxcState EXCEPT ![id] = "STOPPED"]
  /\ init' = Drained(id, init)
  /\ UNCHANGED <<dir, files, snap, monPid, fifoOfInit, released, handle, op, last>>

(***************************************************************************)
(* The specification of the lifecycle.                                     *)
(***************************************************************************)
NoProbe == [s |-> "STOPPED", initPid |-> 0, read |-> [err |-> "ENOENT", data |-> <<>>]]

NoOut == [fn |-> "none", r |-> Result("none", "nil")]

Init ==
  /\ dir = [id \in IDs |-> FALSE]
  /\ files = [id \in IDs |-> {}]
  /\ snap = [id \in IDs |-> NoSnap]
  /\ mon = [id \in IDs |-> "none"]
  /\ monPid = [id \in IDs |-> 0]
  /\ lxcState = [id \in IDs |-> "STOPPED"]
  /\ init = [id \in IDs |-> "none"]
  /\ fifoOfInit = [id \in IDs |-> FALSE]
  /\ cgroup = [id \in IDs |-> "none"]
  /\ released = [id \in IDs |-> FALSE]
  /\ handle = [id \in IDs |-> NilHandle]
  /\ op = Idle
  /\ last = NoLast
  /\ probeIn = NoProbe
  /\ probeOut = NoOut

Next ==
  \/ \E cfg \in LifecycleConfigs, kind \in CreateKinds, p \in MonitorPids :
       Create(cfg, kind, p) /\ UNCHANGED pvars
  \/ \E id \in LifecycleIDs : runStartCmd(id) /\ UNCHANGED <<pvars, cgroup>>
  \/ \E id \in LifecycleIDs : Start(id) /\ UNCHANGED <<pvars, cgroup>>
  \/ \E id \in LifecycleIDs : OpenFifo(id) /\ UNCHANGED <<pvars, cgroup>>
  \/ \E id \in LifecycleIDs : CloseFifo(id) /\ UNCHANGED <<pvars, cgroup>>
  \/ \E id \in LifecycleIDs : waitStarted(id) /\ UNCHANGED <<pvars, cgroup>>
  \/ CtxCancel /\ UNCHANGED <<pvars, cgroup>>
  \/ \E id \in LifecycleIDs, sig \in Signals, cgerr \in CgroupErrors :
       Kill(id, sig, cgerr) /\ UNCHANGED <<pvars, cgroup>>
  \/ \E id \in LifecycleIDs, force \in BOOLEAN, cgerr \in CgroupErrors,
        drainOk \in BOOLEAN, rmOk \in BOOLEAN :
       Delete(id, force, cgerr, drainOk, rmOk) /\ UNCHANGED <<pvars, cgroup>>
  \/ \E id \in LifecycleIDs : MonitorStarting(id) /\ UNCHANGED <<pvars, cgroup>>
  \/ \E id \in LifecycleIDs : MonitorRunning(id) /\ UNCHANGED <<pvars, cgroup>>
  \/ \E id \in LifecycleIDs : InitExec(id) /\ UNCHANGED <<pvars, cgroup>>
  \/ \E id \in LifecycleIDs : ProcessExits(id) /\ UNCHANGED <<pvars, cgroup>>
  \/ \E id \in LifecycleIDs : MonitorStopping(id) /\ UNCHANGED <<pvars, cgroup>>
  \/ \E id \in LifecycleIDs : MonitorExit(id) /\ UNCHANGED <<pvars, cgroup>>
  \/ \E id \in LifecycleIDs : MonitorDies(id) /\ UNCHANGED <<pvars, cgroup>>

Spec == Init /\ [][Next]_vars

\* the lifecycle in a runtime directory that holds bundle files already
InitPersist ==
  /\ dir = [id \in IDs |-> id \in LifecycleIDs]
  /\ files \in [IDs -> SUBSET BundleFiles]
  /\ \A id \in IDs \ LifecycleIDs : files[id] = {}
  /\ snap = [id \in IDs |-> NoSnap]
  /\ mon = [id \in IDs |-> "none"]
  /\ monPid = [id \in IDs |-> 0]
  /\ lxcState = [id \in IDs |-> "STOPPED"]
  /\ init = [id \in IDs |-> "none"]
  /\ fifoOfInit = [id \in IDs |-> FALSE]
  /\ cgroup = [id \in IDs |-> "none"]
  /\ released = [id \in IDs |-> FALSE]
  /\ handle = [id \in IDs |-> NilHandle]
  /\ op = Idle
  /\ last = NoLast
  /\ probeIn = NoProbe
  /\ probeOut = NoOut

SpecPersist == InitPersist /\ [][Next]_vars

\* the step the thread of the caller is at in the call in progress
CallerStep ==
  /\ op # Idle
  /\ CASE op.pc = "waitCreated" -> runStartCmd(op.id)
       [] op.pc = "open" -> OpenFifo(op.id)
       [] op.pc = "close" -> CloseFifo(op.id)
       [] op.pc = "wait" -> waitStarted(op.id)
       [] OTHER -> FALSE
  /\ UNCHANGED <<pvars, cgroup>>

\* the lifecycle with a caller whose thread keeps running
SpecFair == Spec /\ WF_vars(CallerStep)

(***************************************************************************)
(* The specification of the status functions: every engine state, init pid *)
(* and cmdline outcome, and the two functions applied to it.               *)
(***************************************************************************)
ProbeInputs == [s : AnyLxcState, initPid : InitPids, read : ReadOutcomes]

InitProbe ==
  /\ dir = [id \in IDs |-> FALSE]
  /\ files = [id \in IDs |-> {}]
  /\ snap = [id \in IDs |-> NoSnap]
  /\ mon = [id \in IDs |-> "none"]
  /\ monPid = [id \in IDs |-> 0]
  /\ lxcState = [id \in IDs |-> "STOPPED"]
  /\ init = [id \in IDs |-> "none"]
  /\ fifoOfInit = [id \in IDs |-> FALSE]
  /\ cgroup = [id \in IDs |-> "none"]
  /\ released = [id \in IDs |-> FALSE]
  /\ handle = [id \in IDs |-> NilHandle]
  /\ op = Idle
  /\ last = NoLast
  /\ probeIn \in ProbeInputs
  /\ probeOut = NoOut

CallState ==
  /\ probeOut' = [fn |-> "state", r |-> state(probeIn.s, probeIn.initPid, probeIn.read)]
  /\ UNCHANGED <<lvars, probeIn>>

CallGetContainerInitState ==
  /\ probeOut' = [fn |-> "getContainerInitState",
                  r |-> getContainerInitState(probeIn.initPid, probeIn.read)]
  /\ UNCHANGED <<lvars, probeIn>>

NextProbe == CallState \/ CallGetContainerInitState

SpecProbe == InitProbe /\ [][NextProbe]_vars

(***************************************************************************)
(* The specification of validation: Create, with any failure point, called *)
(* with one configuration out of all configurations, on an empty runtime   *)
(* root, and called again with it.                                         *)
(***************************************************************************)
InitConfig ==
  /\ dir = [id \in IDs |-> FALSE]
  /\ files = [id \in IDs |-> {}]
  /\ snap = [id \in IDs |-> NoSnap]
  /\ mon = [id \in IDs |-> "none"]
  /\ monPid = [id \in IDs |-> 0]
  /\ lxcState = [id \in IDs |-> "STOPPED"]
  /\ init = [id \in IDs |-> "none"]
  /\ fifoOfInit = [id \in IDs |-> FALSE]
  /\ cgroup = [id \in IDs |-> "none"]
  /\ released = [id \in IDs |-> FALSE]
  /\ handle = [id \in IDs |-> NilHandle]
  /\ op = Idle
  /\ last = NoLast
  /\ probeIn \in Configs
  /\ probeOut = NoOut

NextConfig ==
  \/ \E kind \in CreateKinds, p \in MonitorPids : Create(probeIn, kind, p) /\ UNCHANGED pvars
  \/ \E id \in IDs : runStartCmd(id) /\ UNCHANGED <<pvars, cgroup>>

SpecConfig == InitConfig /\ [][NextConfig]_vars

(***************************************************************************)
(* The specification of cgroup collisions: two containers, the second      *)
(* created with its own cgroup path or with that of the first, their       *)
(* monitors and init processes.                                            *)
(***************************************************************************)
CgroupConfigs ==
  {TestConfig(id) : id \in IDs} \cup {NonEmptyCgroupConfig("c2", "c1")}

NextCgroup ==
  \/ \E cfg \in CgroupConfigs, kind \in CreateKinds, p \in MonitorPids :
       Create(cfg, kind, p) /\ UNCHANGED pvars
  \/ \E id \in IDs : runStartCmd(id) /\ UNCHANGED <<pvars, cgroup>>
  \/ \E id \in IDs : MonitorStarting(id) /\ UNCHANGED <<pvars, cgroup>>
  \/ \E id \in IDs : MonitorRunning(id) /\ UNCHANGED <<pvars, cgroup>>
  \/ \E id \in IDs : ProcessExits(id) /\ UNCHANGED <<pvars, cgroup>>

SpecCgroup == Init /\ [][NextCgroup]_vars

(***************************************************************************)
(* configureContainer: the translations of the spec into engine            *)
(* configuration.  A string that the code takes apart is a sequence of     *)
(* its parts.                                                              *)
(***************************************************************************)

\* longest list of rlimits in a spec
MaxRlimits == 2

\* largest soft or hard limit
MaxLimit == 2

\* specs.POSIXRlimit.Type, as its parts
RlimitTypes ==
  {<<"RLIMIT_", "NOFILE">>, <<"rlimit_", "nofile">>, <<"Rlimit_", "NoFile">>,
   <<"NOFILE">>, <<"RLIMIT_", "CPU">>}

Rlimits == [Type : RlimitTypes, Soft : 1 .. MaxLimit, Hard : 1 .. MaxLimit]

\* the lower case letters of the capital letters in use
LowerCase ==
  "A" :> "a" @@ "C" :> "c" @@ "H" :> "h" @@ "M" :> "m" @@ "P" :> "p" @@ "R" :> "r"
    @@ "S" :> "s" @@ "X" :> "x"

\* strings.ToLower
ToLower(str) ==
  [i \in 1 .. Len(str) |->
     CASE str[i] \in {"RLIMIT_", "Rlimit_"} -> "rlimit_"
       [] str[i] \in {"NOFILE", "NoFile"} -> "nofile"
       [] str[i] = "CPU" -> "cpu"
       [] str[i] \in DOMAIN LowerCase -> LowerCase[str[i]]
       [] OTHER -> str[i]]

\* strings.TrimPrefix
TrimPrefix(str, prefix) ==
  IF Len(str) >= 1 /\ str[1] = prefix THEN Tail(str) ELSE str

\* the name a limit is known by
\* faulty variant: the type as the spec has it
rlimitName_raw(type) == type

rlimitName(type) == TrimPrefix(ToLower(type), "rlimit_")

\* the loop over Spec.Process.Rlimits: the error and the config items set
RECURSIVE setRlimits(_, _, _)
setRlimits(limits, seenLimits, items) ==
  IF limits = <<>> THEN [err |-> "nil", items |-> items]
  ELSE IF \E i \in 1 .. Len(seenLimits) : seenLimits[i] = rlimitName(Head(limits).Type)
    THEN [err |-> "duplicate resource limit", items |-> items]
  ELSE setRlimits(Tail(limits),
                  Append(seenLimits, rlimitName(Head(limits).Type)),
                  Append(items, [key |-> <<"lxc.prlimit.">> \o rlimitName(Head(limits).Type),
                                 val |-> <<Head(limits).Soft, Head(limits).Hard>>]))

RlimitInputs ==
  [fn : {"rlimits"}, limits : UNION {[1 .. n -> Rlimits] : n \in 0 .. MaxRlimits}]

(***************************************************************************)
(* The seccomp profile.  An architecture name and the machine name of      *)
(* uname are sequences of characters; the profile is the sequence of its   *)
(* lines.                                                                  *)
(***************************************************************************)

\* most syscall entries, argument comparisons of an entry, architectures
MaxSyscalls == 2

MaxArgs == 2

MaxArchs == 2

\* specs.LinuxSeccompArg: two comparisons of argument 0
SeccompArgs ==
  {[Index |-> 0, Value |-> 1, Op |-> "SCMP_CMP_EQ", ValueTwo |-> 0],
   [Index |-> 0, Value |-> 2, Op |-> "SCMP_CMP_NE", ValueTwo |-> 0]}

\* specs.LinuxSyscall
Syscalls ==
  [Names : {<<"read">>, <<"read", "write">>},
   Action : {"SCMP_ACT_ALLOW", "SCMP_ACT_TRACE"},
   Args : UNION {[1 .. n -> SeccompArgs] : n \in 0 .. MaxArgs}]

\* specs.LinuxSeccomp.DefaultAction
DefaultActions ==
  {"SCMP_ACT_KILL", "SCMP_ACT_TRAP", "SCMP_ACT_ERRNO", "SCMP_ACT_ALLOW",
   "SCMP_ACT_TRACE", "SCMP_ACT_LOG", "SCMP_ACT_KILL_PROCESS"}

\* specs.Arch: SCMP_ARCH_X86_64, SCMP_ARCH_ARM, SCMP_ARCH_AARCH64
Archs ==
  LET prefix == <<"S", "C", "M", "P", "_", "A", "R", "C", "H", "_">>
  IN {prefix \o <<"X", "8", "6", "_", "6", "4">>,
      prefix \o <<"A", "R", "M">>,
      prefix \o <<"A", "A", "R", "C", "H", "6", "4">>}

\* uts.Machine: x86_64, aarch64
NativeArchs ==
  {<<"x", "8", "6", "_", "6", "4">>, <<"a", "a", "r", "c", "h", "6", "4">>}

seccompAction ==
  "SCMP_ACT_KILL" :> "kill" @@ "SCMP_ACT_TRAP" :> "trap" @@ "SCMP_ACT_ERRNO" :> "errno"
    @@ "SCMP_ACT_ALLOW" :> "allow"

\* a line of the profile
Line(kind, name, action, args) ==
  [kind |-> kind, name |-> name, action |-> action, args |-> args]

\* the lines of one syscall name
\* faulty variant: all comparisons on one line
ruleLines_oneLine(name, action, args) == <<Line("rule", name, action, args)>>

ruleLines(name, action, args) ==
  IF Len(args) = 0 THEN <<Line("rule", name, action, <<>>)>>
  ELSE [i \in 1 .. Len(args) |-> Line("rule", name, action, <<args[i]>>)]

\* writeSeccompSyscall: the error and the lines written to w
RECURSIVE writeSeccompSyscall(_, _)
writeSeccompSyscall(w, sc) ==
  IF sc.Names = <<>> THEN [err |-> "nil", w |-> w]
  ELSE IF sc.Action \notin DOMAIN seccompAction
    THEN [err |-> "unsupported seccomp action", w |-> w]
  ELSE writeSeccompSyscall(w \o ruleLines(Head(sc.Names), seccompAction[sc.Action], sc.Args),
                           [sc EXCEPT !.Names = Tail(@)])

defaultAction(action) ==
  CASE action = "SCMP_ACT_KILL" -> [action |-> "kill", err |-> "nil"]
    [] action = "SCMP_ACT_TRAP" -> [action |-> "trap", err |-> "nil"]
    [] action = "SCMP_ACT_ERRNO" -> [action |-> "errno 0", err |-> "nil"]
    [] action = "SCMP_ACT_ALLOW" -> [action |-> "allow", err |-> "nil"]
    [] OTHER -> [action |-> "kill", err |-> "Unsupported seccomp default action"]

\* strings.TrimLeft: cutset is the set of the characters to cut
RECURSIVE TrimLeft(_, _)
TrimLeft(str, cutset) ==
  IF str # <<>> /\ Head(str) \in cutset THEN TrimLeft(Tail(str), cutset) ELSE str

\* seccompArchs: archs starts as len(Architectures) empty strings
seccompArchs(architectures, nativeArch) ==
  LET RECURSIVE loop(_, _)
      loop(rest, archs) ==
        IF rest = <<>> THEN archs
        ELSE IF ToLower(nativeArch)
                  = ToLower(TrimLeft(Head(rest), {"S", "C", "M", "P", "_", "A", "R", "H"}))
          THEN <<nativeArch>>
        ELSE loop(Tail(rest),
                  Append(archs, ToLower(TrimLeft(Head(rest),
                                                 {"S", "C", "M", "P", "_", "A", "R", "H"}))))
  IN loop(architectures, [i \in 1 .. Len(architectures) |-> <<>>])

\* writeSeccompProfile: the error and the lines of the profile
writeSeccompProfile(seccomp, nativeArch) ==
  LET RECURSIVE syscalls(_, _)
      syscalls(w, rest) ==
        IF rest = <<>> THEN [err |-> "nil", w |-> w]
        ELSE IF writeSeccompSyscall(w, Head(rest)).err # "nil"
          THEN writeSeccompSyscall(w, Head(rest))
        ELSE syscalls(writeSeccompSyscall(w, Head(rest)).w, Tail(rest))
      RECURSIVE sections(_, _)
      sections(w, archs) ==
        IF archs = <<>> THEN [err |-> "nil", w |-> w]
        ELSE IF syscalls(Append(w, Line("section", Head(archs), "", <<>>)),
                         seccomp.Syscalls).err # "nil"
          THEN syscalls(Append(w, Line("section", Head(archs), "", <<>>)), seccomp.Syscalls)
        ELSE sections(syscalls(Append(w, Line("section", Head(archs), "", <<>>)),
                               seccomp.Syscalls).w, Tail(archs))
  IN IF defaultAction(seccomp.DefaultAction).err # "nil"
     THEN [err |-> defaultAction(seccomp.DefaultAction).err,
           w |-> <<Line("version", "2", "", <<>>)>>]
     ELSE sections(<<Line("version", "2", "", <<>>),
                     Line("allowlist", "", defaultAction(seccomp.DefaultAction).action, <<>>)>>,
                   seccompArchs(seccomp.Architectures, nativeArch))

SeccompInputs ==
  [fn : {"seccomp"},
   seccomp : [DefaultAction : DefaultActions,
              Architectures : UNION {[1 .. n -> Archs] : n \in 0 .. MaxArchs},
              Syscalls : UNION {[1 .. n -> Syscalls] : n \in 0 .. MaxSyscalls}],
   nativeArch : NativeArchs]

(***************************************************************************)
(* Devices without CAP_MKNOD.                                              *)
(***************************************************************************)

\* longest mount list and device list of a spec
MaxMounts == 3

MaxDevices == 2

\* specs.Mount: the mounts on /dev, /proc and /dev/shm
Mounts ==
  {[Destination |-> "/dev", Source |-> "tmpfs", Type |-> "tmpfs"],
   [Destination |-> "/proc", Source |-> "proc", Type |-> "proc"],
   [Destination |-> "/dev/shm", Source |-> "shm", Type |-> "tmpfs"]}

\* specs.LinuxDevice.Path
DevicePaths == {"/dev/null", "/dev/fuse"}

\* the mount of a device file onto itself
BindMount(path) == [Destination |-> path, Source |-> path, Type |-> "bind"]

\* configureContainer without CAP_MKNOD: Spec.Mounts and Spec.Linux.Devices
\* after it.  The tmpfs for /dev is appended to the old Spec.Mounts, which
\* newMounts then replaces.
\* faulty variant: keeps the mounts on /dev
bindMountDevices_keepsDev(mounts, devices, hasMknod) ==
  IF hasMknod THEN [Mounts |-> mounts, Devices |-> devices]
  ELSE [Mounts |-> mounts \o [i \in 1 .. Len(devices) |-> BindMount(devices[i])],
        Devices |-> <<>>]

bindMountDevices(mounts, devices, hasMknod) ==
  IF hasMknod THEN [Mounts |-> mounts, Devices |-> devices]
  ELSE LET newMounts == SelectSeq(mounts, LAMBDA m : m.Destination # "/dev")
           specMounts == Append(mounts, [Destination |-> "/dev", Source |-> "tmpfs",
                                         Type |-> "tmpfs"])
       IN [Mounts |-> newMounts \o [i \in 1 .. Len(devices) |-> BindMount(devices[i])],
           Devices |-> <<>>]

MountInputs ==
  [fn : {"mounts"},
   mounts : UNION {[1 .. n -> Mounts] : n \in 0 .. MaxMounts},
   devices : UNION {[1 .. n -> DevicePaths] : n \in 0 .. MaxDevices},
   hasMknod : BOOLEAN]

(***************************************************************************)
(* The user namespace of an unprivileged runtime.                          *)
(***************************************************************************)

\* longest namespace list of a spec
MaxNamespaces == 2

\* specs.LinuxNamespace: a new namespace (no Path) or one to join
LinuxNamespaces == [Type : {"user", "pid", "mount"}, Path : {"", "/proc/1/ns"}]

\* isNamespaceEnabled: the list has a namespace of that type
isNamespaceEnabled(namespaces, type) ==
  \E i \in 1 .. Len(namespaces) : namespaces[i].Type = type

\* faulty variant: appends the user namespace whatever the spec requests
enableUserNamespace_always(namespaces, privileged) ==
  IF ~privileged THEN Append(namespaces, [Type |-> "user", Path |-> ""]) ELSE namespaces

\* configureContainer: c.Spec.Linux.Namespaces as configureNamespaces gets it
enableUserNamespace(namespaces, privileged) ==
  IF ~privileged
  THEN IF ~isNamespaceEnabled(namespaces, "user")
       THEN Append(namespaces, [Type |-> "user", Path |-> ""])
       ELSE namespaces
  ELSE namespaces

NamespaceInputs ==
  [fn : {"namespaces"},
   namespaces : UNION {[1 .. n -> LinuxNamespaces] : n \in 0 .. MaxNamespaces},
   privileged : BOOLEAN]

(***************************************************************************)
(* devices.txt.  A pointer of the spec (UID, GID, FileMode of a device) is *)
(* the empty sequence when nil and the sequence of its value otherwise.    *)
(***************************************************************************)

\* specs.LinuxDevice: Type, Major and Minor are written as they are
LinuxDevices ==
  [Path : DevicePaths, UID : {<<>>, <<0>>, <<1>>}, GID : {<<>>, <<0>>, <<1>>},
   FileMode : {<<>>, <<"666">>}]

\* writeDevices: the error, or the panic of a nil dereference, and the
\* lines of devices.txt; user is spec.Process.User
writeDevices(isNil, devices, user) ==
  LET RECURSIVE loop(_, _)
      loop(lines, rest) ==
        IF rest = <<>> THEN [err |-> "nil", lines |-> lines]
        ELSE IF Head(rest).GID = <<>> THEN [err |-> "panic", lines |-> lines]
        ELSE loop(Append(lines,
                         [path |-> Head(rest).Path,
                          mode |-> IF Head(rest).FileMode # <<>>
                                   THEN Head(rest).FileMode[1] ELSE "600",
                          uid |-> IF Head(rest).UID # <<>> THEN Head(rest).UID[1]
                                  ELSE user.UID,
                          gid |-> user.GID]),
                  Tail(rest))
  IN IF isNil THEN [err |-> "nil", lines |-> <<>>] ELSE loop(<<>>, devices)

DeviceInputs ==
  {in \in [fn : {"devices"}, isNil : BOOLEAN,
            devices : UNION {[1 .. n -> LinuxDevices] : n \in 0 .. MaxDevices},
            user : [UID : {0, 2}, GID : {0, 2}]] :
     in.isNil => in.devices = <<>>}

TranslateInputs ==
  RlimitInputs \cup SeccompInputs \cup MountInputs \cup NamespaceInputs \cup DeviceInputs

InitTranslate ==
  /\ dir = [id \in IDs |-> FALSE]
  /\ files = [id \in IDs |-> {}]
  /\ snap = [id \in IDs |-> NoSnap]
  /\ mon = [id \in IDs |-> "none"]
  /\ monPid = [id \in IDs |-> 0]
  /\ lxcState = [id \in IDs |-> "STOPPED"]
  /\ init = [id \in IDs |-> "none"]
  /\ fifoOfInit = [id \in IDs |-> FALSE]
  /\ cgroup = [id \in IDs |-> "none"]
  /\ released = [id \in IDs |-> FALSE]
  /\ handle = [id \in IDs |-> NilHandle]
  /\ op = Idle
  /\ last = NoLast
  /\ probeIn \in TranslateInputs
  /\ probeOut = NoOut

CallSetRlimits ==
  /\ probeIn.fn = "rlimits"
  /\ probeOut' = [fn |-> "rlimits", r |-> setRlimits(probeIn.limits, <<>>, <<>>)]
  /\ UNCHANGED <<lvars, probeIn>>

CallWriteSeccompProfile ==
  /\ probeIn.fn = "seccomp"
  /\ probeOut' = [fn |-> "seccomp", r |-> writeSeccompProfile(probeIn.seccomp, probeIn.nativeArch)]
  /\ UNCHANGED <<lvars, probeIn>>

CallBindMountDevices ==
  /\ probeIn.fn = "mounts"
  /\ probeOut' = [fn |-> "mounts",
                  r |-> bindMountDevices(probeIn.mounts, probeIn.devices, probeIn.hasMknod)]
  /\ UNCHANGED <<lvars, probeIn>>

CallEnableUserNamespace ==
  /\ probeIn.fn = "namespaces"
  /\ probeOut' = [fn |-> "namespaces",
                  r |-> enableUserNamespace(probeIn.namespaces, probeIn.privileged)]
  /\ UNCHANGED <<lvars, probeIn>>

CallWriteDevices ==
  /\ probeIn.fn = "devices"
  /\ probeOut' = [fn |-> "devices",
                  r |-> writeDevices(probeIn.isNil, probeIn.devices, probeIn.user)]
  /\ UNCHANGED <<lvars, probeIn>>

NextTranslate ==
  \/ CallSetRlimits
  \/ CallWriteSeccompProfile
  \/ CallBindMountDevices
  \/ CallEnableUserNamespace
  \/ CallWriteDevices

SpecTranslate == InitTranslate /\ [][NextTranslate]_vars

(***************************************************************************)
(* Runtime.Init.  Of the Runtime it has the fields Init assigns, of the    *)
(* file system the directory <Root>/.rootfs, of the host the user id and   *)
(* the environment.                                                        *)
(***************************************************************************)

\* most calls of Init on one Runtime
MaxInits == 2

\* the Runtime before Init
ZeroRuntime == [rootfsMount |-> "", privileged |-> FALSE, env |-> <<>>]

\* the directory <Root>/.rootfs: absent, or present with a mode
RootfsDirs == {"absent", "0755", "0777"}

\* the step of Init that fails: none, os.MkdirAll, os.Chmod, canExecute,
\* isFilesystem for /proc and the cgroup root, lxc.VersionAtLeast(3, 1, 0)
InitFailures == {"none", "mkdir", "chmod", "access", "procfs", "cgroup2", "version"}

InitInputs ==
  [fn : {"Init"}, uid : {0, 1000},
   environ : [{"HOME", "XDG_RUNTIME_DIR", "PATH"} -> {"", "/v"}]]

\* Runtime.keepEnv
RECURSIVE keepEnv(_, _, _)
keepEnv(env, environ, names) ==
  IF names = <<>> THEN env
  ELSE keepEnv(IF environ[Head(names)] # "" THEN Append(env, <<Head(names), "=", environ[Head(names)]>>)
               ELSE env,
               environ, Tail(names))

\* Runtime.Init on the Runtime rt with the directory fs, on the host in,
\* with the step fail failing: the error, the Runtime and the directory
RuntimeInit(rt, fs, in, fail) ==
  LET rt1 == [rt EXCEPT !.rootfsMount = "<Root>/.rootfs"]
      fs1 == IF fs = "absent" THEN "0755" ELSE fs
      rt2 == [rt1 EXCEPT !.privileged = (in.uid = 0),
                         !.env = keepEnv(rt1.env, in.environ, <<"HOME", "XDG_RUNTIME_DIR", "PATH">>)]
  IN CASE fail = "mkdir" -> [err |-> "failed to create directory for rootfs mount", rt |-> rt1, fs |-> fs]
       [] fail = "chmod" -> [err |-> "failed to chmod", rt |-> rt1, fs |-> fs1]
       [] fail = "access" -> [err |-> "access check failed", rt |-> rt2, fs |-> "0777"]
       [] fail = "procfs" -> [err |-> "procfs not mounted on /proc", rt |-> rt2, fs |-> "0777"]
       [] fail = "cgroup2" -> [err |-> "cgroup2 not mounted", rt |-> rt2, fs |-> "0777"]
       [] fail = "version" -> [err |-> "liblxc runtime version", rt |-> rt2, fs |-> "0777"]
       [] OTHER -> [err |-> "nil", rt |-> rt2, fs |-> "0777"]

InitInit ==
  /\ dir = [id \in IDs |-> FALSE]
  /\ files = [id \in IDs |-> {}]
  /\ snap = [id \in IDs |-> NoSnap]
  /\ mon = [id \in IDs |-> "none"]
  /\ monPid = [id \in IDs |-> 0]
  /\ lxcState = [id \in IDs |-> "STOPPED"]
  /\ init = [id \in IDs |-> "none"]
  /\ fifoOfInit = [id \in IDs |-> FALSE]
  /\ cgroup = [id \in IDs |-> "none"]
  /\ released = [id \in IDs |-> FALSE]
  /\ handle = [id \in IDs |-> NilHandle]
  /\ op = Idle
  /\ last = NoLast
  /\ probeIn \in InitInputs
  /\ \E fs \in RootfsDirs :
       probeOut = [fn |-> "Init", calls |-> 0,
                   r |-> [err |-> "none", rt |-> ZeroRuntime, fs |-> fs]]

\* a call of Init on the Runtime of the calls before
CallInit ==
  /\ probeOut.calls < MaxInits
  /\ \E fail \in InitFailures :
       probeOut' = [fn |-> "Init", calls |-> probeOut.calls + 1,
                    r |-> RuntimeInit(probeOut.r.rt, probeOut.r.fs, probeIn, fail)]
  /\ UNCHANGED <<lvars, probeIn>>

NextInit == CallInit

SpecInit == InitInit /\ [][NextInit]_vars

(***************************************************************************)
(* The specification of the monitor liveness decision: isMonitorRunning    *)
(* for every Pid of the handle, every outcome of Wait4 with WNOHANG on     *)
(* that pid and every outcome of Kill with signal 0.                       *)
(***************************************************************************)
\* the Pid of the handle; what Wait4(Pid, WNOHANG) returns: Pid for a reaped
\* child, 0 for a child that has not exited, -1 and an error otherwise; the
\* error of Kill(Pid, 0)
MonitorInputs ==
  UNION {[Pid : {p},
          wait : {[pid |-> p, err |-> "nil"], [pid |-> 0, err |-> "nil"]}
                   \cup {[pid |-> 0 - 1, err |-> e] : e \in {"ECHILD", "EINTR", "EINVAL"}},
          kill : {"nil", "ESRCH", "EPERM"}] : p \in 0 .. MaxPid}

InitMonitor ==
  /\ dir = [id \in IDs |-> FALSE]
  /\ files = [id \in IDs |-> {}]
  /\ snap = [id \in IDs |-> NoSnap]
  /\ mon = [id \in IDs |-> "none"]
  /\ monPid = [id \in IDs |-> 0]
  /\ lxcState = [id \in IDs |-> "STOPPED"]
  /\ init = [id \in IDs |-> "none"]
  /\ fifoOfInit = [id \in IDs |-> FALSE]
  /\ cgroup = [id \in IDs |-> "none"]
  /\ released = [id \in IDs |-> FALSE]
  /\ handle = [id \in IDs |-> NilHandle]
  /\ op = Idle
  /\ last = NoLast
  /\ probeIn \in MonitorInputs
  /\ probeOut = [fn |-> "none", r |-> FALSE]

CallIsMonitorRunning ==
  /\ probeOut' = [fn |-> "isMonitorRunning",
                  r |-> monitorRunning(probeIn.Pid, probeIn.wait, probeIn.kill)]
  /\ UNCHANGED <<lvars, probeIn>>

NextMonitor == CallIsMonitorRunning

SpecMonitor == InitMonitor /\ [][NextMonitor]_vars

(***************************************************************************)
(* The specification of repeated calls of isMonitorRunning on one          *)
(* Container while the host goes on: probeIn is the Pid of the Container,  *)
(* whether the monitor is a child of the caller, the monitor process       *)
(* (alive, zombie, gone), whether another process of the host holds the    *)
(* Pid now and whether one ever was created with it; probeOut is the last  *)
(* result, the number of calls and whether a call before the last          *)
(* returned false.                                                         *)
(***************************************************************************)
\* most calls of isMonitorRunning on one Container
MaxCalls == 3

InitHost ==
  /\ dir = [id \in IDs |-> FALSE]
  /\ files = [id \in IDs |-> {}]
  /\ snap = [id \in IDs |-> NoSnap]
  /\ mon = [id \in IDs |-> "none"]
  /\ monPid = [id \in IDs |-> 0]
  /\ lxcState = [id \in IDs |-> "STOPPED"]
  /\ init = [id \in IDs |-> "none"]
  /\ fifoOfInit = [id \in IDs |-> FALSE]
  /\ cgroup = [id \in IDs |-> "none"]
  /\ released = [id \in IDs |-> FALSE]
  /\ handle = [id \in IDs |-> NilHandle]
  /\ op = Idle
  /\ last = NoLast
  /\ probeIn \in [Pid : 0 .. MaxPid, child : BOOLEAN, mon : {"alive"},
                   other : {FALSE}, reused : {FALSE}]
  /\ probeOut = [fn |-> "none", r |-> FALSE, died |-> FALSE, calls |-> 0]

\* a call of isMonitorRunning: Wait4 with WNOHANG reaps an exited child,
\* gives 0 for a running child and ECHILD for a pid that is no child;
\* Kill with signal 0 succeeds when any process holds the pid
HostCall ==
  LET wait == IF probeIn.child /\ probeIn.mon = "zombie"
                THEN [pid |-> probeIn.Pid, err |-> "nil"]
              ELSE IF probeIn.child /\ probeIn.mon = "alive"
                THEN [pid |-> 0, err |-> "nil"]
              ELSE [pid |-> 0 - 1, err |-> "ECHILD"]
      killErr == IF probeIn.mon # "gone" THEN "nil"
                 ELSE IF probeIn.other THEN "nil" ELSE "ESRCH"
  IN /\ probeOut.calls < MaxCalls
     /\ probeOut' = [fn |-> "isMonitorRunning",
                     r |-> monitorRunning(probeIn.Pid, wait, killErr),
                     calls |-> probeOut.calls + 1,
                     died |-> IF probeOut.died THEN TRUE
                              ELSE probeOut.fn = "isMonitorRunning" /\ ~probeOut.r]
     /\ probeIn' = [probeIn EXCEPT !.mon = IF probeIn.Pid >= 2 /\ wait.pid = probeIn.Pid
                                            THEN "gone" ELSE @]
     /\ UNCHANGED lvars

\* the monitor process exits
HostMonitorExits ==
  /\ probeIn.mon = "alive"
  /\ probeIn' = [probeIn EXCEPT !.mon = "zombie"]
  /\ UNCHANGED <<lvars, probeOut>>

\* the parent of a monitor that is no child of the caller reaps it
HostReaps ==
  /\ ~probeIn.child /\ probeIn.mon = "zombie"
  /\ probeIn' = [probeIn EXCEPT !.mon = "gone"]
  /\ UNCHANGED <<lvars, probeOut>>

\* the host creates a process and hands it the free pid of the monitor
\* that is gone, or that process exits
HostProcess ==
  /\ probeIn.Pid >= 2 /\ probeIn.mon = "gone"
  /\ probeIn' = [probeIn EXCEPT !.other = ~@, !.reused = TRUE]
  /\ UNCHANGED <<lvars, probeOut>>

NextHost == HostCall \/ HostMonitorExits \/ HostReaps \/ HostProcess

SpecHost == InitHost /\ [][NextHost]_vars

(***************************************************************************)
(* The specification of two containers: the first is created and its       *)
(* processes run; the second goes through Create, Start, Kill and Delete   *)
(* with its own cgroup path or with that of the first.                     *)
(***************************************************************************)
NextIsolation ==
  \/ \E cfg \in CgroupConfigs, kind \in {"cgroup", "ok"}, p \in MonitorPids :
       Create(cfg, kind, p) /\ UNCHANGED pvars
  \/ \E id \in IDs : runStartCmd(id) /\ UNCHANGED <<pvars, cgroup>>
  \/ \E id \in IDs \ LifecycleIDs : Start(id) /\ UNCHANGED <<pvars, cgroup>>
  \/ \E id \in IDs \ LifecycleIDs : OpenFifo(id) /\ UNCHANGED <<pvars, cgroup>>
  \/ \E id \in IDs \ LifecycleIDs : CloseFifo(id) /\ UNCHANGED <<pvars, cgroup>>
  \/ \E id \in IDs \ LifecycleIDs : waitStarted(id) /\ UNCHANGED <<pvars, cgroup>>
  \/ \E id \in IDs \ LifecycleIDs, sig \in Signals :
       Kill(id, sig, "nil") /\ UNCHANGED <<pvars, cgroup>>
  \/ \E id \in IDs \ LifecycleIDs, rmOk \in BOOLEAN :
       Delete(id, TRUE, "nil", TRUE, rmOk) /\ UNCHANGED <<pvars, cgroup>>
  \/ \E id \in IDs : MonitorStarting(id) /\ UNCHANGED <<pvars, cgroup>>
  \/ \E id \in IDs : MonitorRunning(id) /\ UNCHANGED <<pvars, cgroup>>
  \/ \E id \in IDs : InitExec(id) /\ UNCHANGED <<pvars, cgroup>>

SpecIsolation == Init /\ [][NextIsolation]_vars

(***************************************************************************)
(* Properties.                                                             *)
(***************************************************************************)

\* C1: handshake ordering.  In every interleaving the status running is
\* never there to be observed, by Start or by anyone, before a writer of
\* init's FIFO has been opened and closed; Start polls the init state only
\* after it closed its descriptor; and the init process leaves the sentinel
\* process image only after that close.
C1_HandshakeOrdering ==
  /\ [](\A id \in IDs : ContainerState(id).status = StateRunning => released[id])
  /\ [](\A id \in IDs : op.name = "Start" /\ op.id = id /\ op.pc = "wait" =>
                          op.fd = "closed" /\ released[id])
  /\ [][\A id \in IDs : init[id] \in Sentinel /\ init'[id] = "user" => released[id]]_vars

\* C1 happens: a Start that closed the FIFO returned and the status is running
C1_RunningAfterClose ==
  \E id \in IDs :
    /\ last.name = "Start" /\ last.id = id /\ last.res = "ok" /\ last.fd = "closed"
    /\ released[id]
    /\ ContainerState(id).status = StateRunning

\* C2 as stated: Start returns success only after the FIFO writer has closed
\* and the status is running or later, and returns an error when the
\* monitor died during the wait.
C2_StartSuccessMeansRunning ==
  last.name = "Start" /\ last.res = "ok" =>
    /\ last.fd = "closed"
    /\ last.status \in {StateRunning, StateStopped}
    /\ last.mon = "alive"

\* C3 as stated and as runtime_test.go asserts it: a Create that returns
\* while the monitor is alive and the status is created, and whose context
\* is not done, returns success.
C3_CreateSucceedsWhenCreated ==
  last.name = "Create" /\ last.mon = "alive" /\ last.status = StateCreated
    /\ last.res # "context done" => last.res = "ok"

\* C4 as stated: a round of waitCreated that finds the launched monitor
\* alive, the engine RUNNING and the init probe created makes Create
\* succeed and record Pid = pid of the launched monitor and CreatedAt; a
\* round that finds the monitor exited makes Create fail.
C4_Rendezvous ==
  [][\A id \in IDs :
       runStartCmd(id) /\ op.ctx = "live" =>
         /\ (mon[id] = "alive" /\ monPid[id] = op.pid /\ lxcState[id] = "RUNNING"
               /\ InitState(id).status = StateCreated /\ "lxcri.json" \notin files[id]
             => last'.res = "ok" /\ handle'[id].Pid = op.pid /\ handle'[id].CreatedAt)
         /\ (mon[id] # "alive" => op' = Idle /\ last'.res # "ok")]_vars

\* C5 as stated: whenever the status of a container is created or running
\* (the code has no status stopping), the Pid of its Container is above 1.
C5_MonitorPidRecorded ==
  \A id \in IDs :
    Usable(id) /\ ContainerState(id).status \in {StateCreated, StateRunning} =>
      handle[id].Pid > 1

\* C6: state mapping totality.  For every engine state, init pid and
\* cmdline outcome the result of Container.state is defined and follows the
\* table: STOPPED gives stopped, STARTING gives creating, RUNNING, STOPPING,
\* ABORTING, FREEZING, FROZEN and THAWED give what the init probe gives, and
\* any other engine state gives an error.
C6_StateMapping ==
  probeOut.fn = "state" =>
    /\ probeOut.r.status \in {StateCreating, StateCreated, StateRunning, StateStopped}
    /\ probeIn.s = "STOPPED" => probeOut.r = [status |-> "stopped", err |-> "nil"]
    /\ probeIn.s = "STARTING" => probeOut.r = [status |-> "creating", err |-> "nil"]
    /\ probeIn.s \in {"RUNNING", "STOPPING", "ABORTING", "FREEZING", "FROZEN", "THAWED"} =>
         probeOut.r = getContainerInitState(probeIn.initPid, probeIn.read)
    /\ probeIn.s \notin {"STOPPED", "STARTING", "RUNNING", "STOPPING", "ABORTING",
                         "FREEZING", "FROZEN", "THAWED"} => probeOut.r.err # "nil"

\* C6 happens: a frozen container whose init shows the sentinel is created
C6_FrozenProbed ==
  /\ probeOut.fn = "state"
  /\ probeIn.s = "FROZEN"
  /\ probeOut.r = [status |-> "created", err |-> "nil"]

\* C7: the init probe.  It never returns an error; the status is created
\* iff the init pid is at least 1 and the cmdline is read and is exactly
\* "/.lxcri/lxcri-init" followed by one NUL; it is running for any other
\* content read; it is stopped when the cmdline cannot be read or the init
\* pid is below 1.
C7_InitProbe ==
  probeOut.fn = "getContainerInitState" =>
    /\ probeOut.r.err = "nil"
    /\ probeOut.r.status = "created" <=>
         /\ probeIn.initPid >= 1
         /\ probeIn.read.err = "nil"
         /\ probeIn.read.data = <<"/.lxcri/lxcri-init", "\\000">>
    /\ probeIn.initPid >= 1 /\ probeIn.read.err = "nil"
         /\ probeIn.read.data # <<"/.lxcri/lxcri-init", "\\000">>
       => probeOut.r.status = "running"
    /\ probeIn.initPid < 1 \/ probeIn.read.err # "nil" => probeOut.r.status = "stopped"

\* C7 happens: a cmdline with a second NUL after the sentinel is running
C7_NearSentinel ==
  /\ probeOut.fn = "getContainerInitState"
  /\ probeIn.initPid >= 1
  /\ probeIn.read = [err |-> "nil", data |-> <<ExecInitPath, NUL, NUL>>]
  /\ probeOut.r.status = "running"

\* C8: Start on a container whose status is not created returns an error
\* at once: the FIFO is not opened, nothing of the container, its files,
\* its processes or the handle changes; Start goes on to the FIFO only
\* with the status created.
C8_StartRefused ==
  /\ [](op.name = "Start" => op.obs = StateCreated)
  /\ [][\A id \in IDs :
          Start(id) /\ ContainerState(id).status # StateCreated =>
            /\ op' = Idle
            /\ last'.name = "Start" /\ last'.res # "ok" /\ last'.fd = "none"
            /\ UNCHANGED <<envvars, handle>>]_vars

\* C8 happens: Start was refused on a running container
C8_RefusedRunning ==
  /\ last.name = "Start" /\ last.res = "invalid container state"
  /\ last.status = StateRunning /\ last.fd = "none"

\* C9: Kill on a container whose status is stopped returns an error, hands
\* no signal to killCgroup and changes no process; with any other status
\* it hands the caller's signal to killCgroup for the container's cgroup.
C9_KillRefusesStopped ==
  [][\A id \in IDs, sig \in Signals, cgerr \in CgroupErrors :
       Kill(id, sig, cgerr) /\ ContainerState(id).err = "nil" =>
         IF ContainerState(id).status = "stopped"
         THEN /\ last'.res = "container already stopped"
              /\ last'.sent = "none"
              /\ UNCHANGED <<envvars, handle>>
         ELSE /\ last'.sent = sig
              /\ last'.res = kill(cgerr)]_vars

\* C9 happens: Kill was refused on a stopped container
C9_RefusedStopped ==
  /\ last.name = "Kill" /\ last.status = StateStopped
  /\ last.res = "container already stopped" /\ last.sent = "none"

\* C10: idempotent Delete.  Delete of an id without runtime directory
\* returns success and changes nothing; a Delete right after a successful
\* Delete of the same id returns success; a successful Delete of a
\* container that cannot be loaded leaves no runtime directory.
C10_DeleteIdempotent ==
  /\ [](last.name = "Delete" /\ last.again => last.res = "ok")
  /\ [][\A id \in IDs, force \in BOOLEAN, cgerr \in CgroupErrors,
             drainOk \in BOOLEAN, rmOk \in BOOLEAN :
          Delete(id, force, cgerr, drainOk, rmOk) =>
            /\ ~dir[id] => last'.res = "ok" /\ UNCHANGED <<envvars, handle>>
            /\ dir[id] /\ Load(id) # "nil" /\ last'.res = "ok" =>
                 ~dir'[id] /\ files'[id] = {}]_vars

\* C10 happens: a container was made, deleted and deleted once more
C10_DeletedTwice ==
  /\ last.name = "Delete" /\ last.again /\ last.res = "ok"
  /\ handle[last.id].lxc
  /\ ~dir[last.id]

\* C11 as stated: Delete without force on a container that has a runtime
\* directory and whose status is not stopped returns an error, hands no
\* signal to the cgroup and leaves the runtime directory in place.
C11_DeleteNeedsStoppedOrForce ==
  [][\A id \in IDs, cgerr \in CgroupErrors, drainOk \in BOOLEAN, rmOk \in BOOLEAN :
       Delete(id, FALSE, cgerr, drainOk, rmOk) /\ dir[id]
         /\ ContainerState(id).status # StateStopped =>
           /\ last'.res # "ok"
           /\ last'.sent = "none"
           /\ dir'[id] /\ files'[id] = files[id]]_vars

\* C12 as stated: a Delete with force that returns success on the runtime
\* directory a failed Create left behind (no lxcri.json) leaves neither
\* the runtime directory nor a live monitor or container process.
C12_PartialProgressCleanable ==
  [][\A id \in IDs, cgerr \in CgroupErrors, drainOk \in BOOLEAN, rmOk \in BOOLEAN :
       Delete(id, TRUE, cgerr, drainOk, rmOk) /\ dir[id] /\ "lxcri.json" \notin files[id]
         /\ last'.res = "ok" =>
           /\ ~dir'[id]
           /\ mon'[id] # "alive"
           /\ init'[id] \notin InitLive]_vars

\* C13 as stated: after a Delete with force returned success no process of
\* the container is alive, and a Delete whose drain failed returns an error.
C13_CgroupDrained ==
  /\ [](last.name = "Delete" /\ last.drain = "failed" => last.res # "ok")
  /\ [][\A id \in IDs, cgerr \in CgroupErrors, drainOk \in BOOLEAN, rmOk \in BOOLEAN :
          Delete(id, TRUE, cgerr, drainOk, rmOk) /\ last'.res = "ok" =>
            init'[id] \notin InitLive]_vars

\* C14 as stated: the steps of Delete are always kill (when forced and the
\* status is not stopped), then drain, then destroy: the runtime directory
\* of a container that is not stopped is never removed by a Delete that did
\* not hand SIGKILL to the cgroup and drain it; and a Delete whose drain
\* failed and whose destroy succeeded returns success.
C14_KillDrainDestroy ==
  /\ [](last.name = "Delete" /\ last.drain = "failed" /\ ~dir[last.id] => last.res = "ok")
  /\ [][\A id \in IDs, cgerr \in CgroupErrors, drainOk \in BOOLEAN, rmOk \in BOOLEAN :
          Delete(id, TRUE, cgerr, drainOk, rmOk) /\ dir[id] /\ ~dir'[id]
            /\ ContainerState(id).status # StateStopped =>
              last'.sent = "SIGKILL" /\ last'.drain # "none"]_vars

\* C15 as stated: Start and Kill leave a stopped container stopped, and
\* after a Delete with force returned success, and until the next
\* operation, the status the engine handle gives is stopped.
C15_StoppedIsTerminal ==
  /\ [][\A id \in IDs, sig \in Signals, cgerr \in CgroupErrors :
          (Start(id) \/ Kill(id, sig, cgerr)) /\ ContainerState(id).status = StateStopped =>
            UNCHANGED <<envvars, handle>>]_vars
  /\ [](op = Idle /\ last.name = "Delete" /\ last.force /\ last.res = "ok" =>
          ContainerState(last.id).status = StateStopped)

\* C16: mount-namespace safety.  Create with a configuration whose
\* namespace list has no mount entry (the empty list too) or whose mount
\* entry names the host's mount namespace returns an error and a nil
\* container, and neither a runtime directory nor a Container comes to be.
C16_MountNamespaceSafety ==
  probeIn.Mount \in {"absent", "host"} =>
    /\ \A id \in IDs : ~dir[id] /\ handle[id].nil
    /\ op = Idle
    /\ last.name = "Create" => last.res # "ok" /\ last.c = "nil"

\* C16 happens: the configuration of TestEmptyNamespaces was rejected
C16_EmptyNamespacesRejected ==
  /\ probeIn = EmptyNamespacesConfig("c1")
  /\ last.name = "Create" /\ last.c = "nil"
  /\ last.res = "container wants to share the hosts mount namespace"

\* C17: Create with an empty container ID, a nil Root, an empty Root.Path,
\* a nil Process or empty Process.Args returns an error and a nil container
\* and makes no runtime directory and no Container; a configuration with
\* none of these and with isolated mount namespace is not rejected
\* whatever its Process.Cwd, an empty Cwd is "/" after the call and any
\* other Cwd is kept.
C17_Validation ==
  /\ (probeIn.ContainerID = "" \/ probeIn.Root \in {"nil", ""}
        \/ probeIn.Process.nil \/ probeIn.Process.Args = <<>>) =>
       /\ \A id \in IDs : ~dir[id] /\ handle[id].nil
       /\ last.name = "Create" => last.res # "ok" /\ last.c = "nil"
  /\ (probeIn.ContainerID # "" /\ probeIn.Root \notin {"nil", ""}
        /\ ~probeIn.Process.nil /\ probeIn.Process.Args # <<>>
        /\ probeIn.Mount \in {"", "other"} /\ probeIn.Pid # "bad"
        /\ last.name = "Create") =>
       /\ last.c # "nil"
       /\ last.cfg.Process.Cwd = IF probeIn.Process.Cwd = "" THEN "/" ELSE probeIn.Process.Cwd
       /\ last.cfg.Process.Cwd # ""

\* C17 happens: a configuration with empty Cwd passed validation
C17_CwdDefaulted ==
  /\ probeIn.Process.Cwd = ""
  /\ last.name = "Create" /\ last.c = "partial"
  /\ last.cfg.Process.Cwd = "/"
  /\ dir[probeIn.ContainerID]

\* C18 as stated and as TestSharedPIDNamespace asserts it: a configuration
\* whose pid namespace entry names the host's pid namespace passes
\* validation, and a Create with it that returns while its monitor is alive
\* and the status is created, its context not done, returns success.
C18_SharedPIDAllowed ==
  /\ \A id \in IDs : checkConfig(SharedPIDConfig(id)).err = "nil"
  /\ last.name = "Create" /\ last.cfg = SharedPIDConfig(last.id) =>
       /\ last.c # "nil"
       /\ last.mon = "alive" /\ last.status = StateCreated /\ last.res # "context done"
            => last.res = "ok" /\ last.c = "created"

C25_ExclusiveCreate ==
  [][\A cfg \in LifecycleConfigs, kind \in CreateKinds, p \in MonitorPids :
       files[cfg.ContainerID] \cap BundleFiles # {} /\ Create(cfg, kind, p) =>
         /\ last'.name = "Create" /\ last'.res # "ok"
         /\ op' = Idle
         /\ mon' = mon /\ monPid' = monPid
         /\ files[cfg.ContainerID] \subseteq files'[cfg.ContainerID]
         /\ last'.wrote \cap files[cfg.ContainerID] = {}
         /\ (checkConfig(cfg).err = "nil" /\ kind \in {"start", "ok"}
               /\ configureCgroup(cfg) = "nil") => last'.res = "file exists"]_vars

\* C25 happens: Create found hooks.json, wrote config.json and stopped
C25_HooksJsonKept ==
  /\ last.name = "Create" /\ last.res = "file exists"
  /\ last.wrote = {"config.json"}
  /\ files[last.id] = {"config", "syncfifo", "config.json", "hooks.json"}
  /\ mon[last.id] = "none"

\* C26 as stated: the status Create encodes in state.json is creating.
C26_StateJsonCreating ==
  last.name = "Create" /\ "state.json" \in last.wrote => last.state = StateCreating

\* C27 as stated: an Init that fails leaves the Runtime's fields and the
\* directory under Root as they were, and an Init that succeeds after
\* failed ones leaves the Runtime a single successful Init leaves.
C27_InitFailureMutatesNothing ==
  /\ [][CallInit /\ probeOut'.r.err # "nil" =>
          probeOut'.r.rt = probeOut.r.rt /\ probeOut'.r.fs = probeOut.r.fs]_vars
  /\ [](probeOut.fn = "Init" /\ probeOut.r.err = "nil" =>
          probeOut.r.rt = RuntimeInit(ZeroRuntime, "0777", probeIn, "none").rt)

\* the container a step of a runtime operation is about
Actor == IF op' # Idle THEN op'.id ELSE last'.id

\* C28: an operation of the runtime on one container leaves the runtime
\* directory of every other container, its files, its recorded monitor
\* process id and its derived status as they were
C28_Isolation ==
  [][\A b \in IDs :
       (<<op, last>>' # <<op, last>> /\ Actor # b)
         => /\ dir'[b] = dir[b]
            /\ files'[b] = files[b]
            /\ snap'[b] = snap[b]
            /\ handle'[b] = handle[b]
            /\ ContainerState(b)' = ContainerState(b)]_vars

\* C29 as stated: Load of an id without runtime directory returns
\* ErrNotExist, and after a Create that went through the rendezvous (it
\* returned while the monitor is alive and the status is created, its context
\* not done) and before any Delete, Load of the id succeeds and the loaded
\* Container has the Pid and CreatedAt of the one Create returned.
C29_LoadRoundTrip ==
  /\ \A id \in IDs : ~dir[id] => Load(id) = "ErrNotExist"
  /\ last.name = "Create" /\ last.mon = "alive" /\ last.status = StateCreated
       /\ last.res # "context done" =>
         /\ Load(last.id) = "nil"
         /\ snap[last.id].Pid = handle[last.id].Pid
         /\ snap[last.id].CreatedAt = handle[last.id].CreatedAt

\* C30: monitor liveness decision.  With a recorded Pid above 1,
\* isMonitorRunning is false when Wait4 returns the Pid (the monitor was
\* reaped), true when Wait4 returns 0, and when Wait4 fails with ECHILD it
\* is true if Kill(Pid, 0) succeeds and false if that fails with ESRCH;
\* with every other outcome it is false.
C30_MonitorDecision ==
  probeOut.fn = "isMonitorRunning" =>
    /\ probeIn.Pid >= 2 /\ probeIn.wait.pid = probeIn.Pid => ~probeOut.r
    /\ probeIn.Pid >= 2 /\ probeIn.wait.pid = 0 => probeOut.r
    /\ probeIn.Pid >= 2 /\ probeIn.wait.err = "ECHILD" /\ probeIn.kill = "nil" => probeOut.r
    /\ probeIn.wait.err = "ECHILD" /\ probeIn.kill = "ESRCH" => ~probeOut.r
    /\ probeOut.r =>
         \/ probeIn.wait.pid = 0
         \/ probeIn.wait.err = "ECHILD" /\ probeIn.kill = "nil"

\* C30 happens: the monitor is not a child of the caller and Kill with
\* signal 0 found it
C30_FallbackAlive ==
  /\ probeOut.fn = "isMonitorRunning"
  /\ probeIn.wait.err = "ECHILD" /\ probeIn.kill = "nil"
  /\ probeOut.r

\* C31: Kill tolerates a vanished cgroup.  A Kill that reaches
\* Container.kill returns success when killCgroup returns nil, ENOENT or
\* ENODEV, and a failure when killCgroup returns any other error.
C31_KillToleratesVanishedCgroup ==
  [][\A id \in LifecycleIDs, cgerr \in CgroupErrors :
       op = Idle /\ ContainerState(id).err = "nil"
         /\ ContainerState(id).status # StateStopped
         /\ (\E sig \in Signals : Kill(id, sig, cgerr)) =>
           /\ cgerr \in {"nil", "ENOENT", "ENODEV"} => last'.res = "ok"
           /\ cgerr \notin {"nil", "ENOENT", "ENODEV"} => last'.res = "failed to kill group"]_vars

\* C31 happens: Kill with SIGKILL returned success on a container whose
\* init process is alive afterwards: the cgroup was gone
C31_VanishedCgroup ==
  /\ last.name = "Kill" /\ last.res = "ok" /\ last.sent = "SIGKILL"
  /\ last.status \in {StateCreated, StateRunning}
  /\ init[last.id] \in InitLive

\* C32 as stated: the second line of the seccomp profile is the allowlist
\* line with the default action kill for kill, trap for trap, errno 0 for
\* errno and allow for allow; for the default actions trace and log the
\* line carries kill and writeSeccompProfile does not fail on the default
\* action.
C32_SeccompDefaultAction ==
  probeOut.fn = "seccomp"
    /\ probeIn.seccomp.DefaultAction
         \in {"SCMP_ACT_KILL", "SCMP_ACT_TRAP", "SCMP_ACT_ERRNO", "SCMP_ACT_ALLOW",
              "SCMP_ACT_TRACE", "SCMP_ACT_LOG"} =>
      /\ probeOut.r.err # "Unsupported seccomp default action"
      /\ Len(probeOut.r.w) >= 2
      /\ probeOut.r.w[2] =
           Line("allowlist", "",
                CASE probeIn.seccomp.DefaultAction = "SCMP_ACT_TRAP" -> "trap"
                  [] probeIn.seccomp.DefaultAction = "SCMP_ACT_ERRNO" -> "errno 0"
                  [] probeIn.seccomp.DefaultAction = "SCMP_ACT_ALLOW" -> "allow"
                  [] OTHER -> "kill",
                <<>>)

\* C33 as stated: a profile that was written has one bracketed section per
\* architecture of the spec, named by the architecture in lower case without
\* the prefix SCMP_ARCH_, in the order of the spec; when one of these names
\* is the native architecture of the host the profile has exactly one
\* section, that of the native architecture.
C33_SeccompArchitectures ==
  probeOut.fn = "seccomp" /\ probeOut.r.err = "nil" =>
    LET IsSection(l) == l.kind = "section"
        prefix == <<"S", "C", "M", "P", "_", "A", "R", "C", "H", "_">>
        Stripped(a) == IF Len(a) >= Len(prefix) /\ SubSeq(a, 1, Len(prefix)) = prefix
                       THEN SubSeq(a, Len(prefix) + 1, Len(a)) ELSE a
        names == [i \in 1 .. Len(probeIn.seccomp.Architectures) |->
                    ToLower(Stripped(probeIn.seccomp.Architectures[i]))]
        sections == [i \in 1 .. Len(SelectSeq(probeOut.r.w, IsSection)) |->
                       SelectSeq(probeOut.r.w, IsSection)[i].name]
    IN IF \E i \in 1 .. Len(names) : names[i] = ToLower(probeIn.nativeArch)
       THEN sections = <<probeIn.nativeArch>>
       ELSE sections = names

\* C34 as stated: without CAP_MKNOD the mount list after configureContainer
\* has exactly one mount whose Destination is /dev, it is a tmpfs, and it
\* comes before the bind mounts of the devices.
C34_DevTmpfsInjected ==
  probeOut.fn = "mounts" /\ ~probeIn.hasMknod =>
    LET out == probeOut.r.Mounts
        dev == {i \in 1 .. Len(out) : out[i].Destination = "/dev"}
    IN /\ Cardinality(dev) = 1
       /\ \A i \in dev :
            /\ out[i].Type = "tmpfs" /\ out[i].Source = "tmpfs"
            /\ \A j \in 1 .. Len(out) : out[j].Type = "bind" /\ out[j].Source \in DevicePaths
                                           => i < j

\* C35: user namespace auto-enable.  When the runtime is unprivileged and
\* the spec has no user namespace, the namespace list handed to
\* configureNamespaces is the spec's list followed by one user namespace
\* without path; when the spec has a user namespace or the runtime is
\* privileged it is the spec's list.
C35_UserNamespaceAutoEnable ==
  probeOut.fn = "namespaces" =>
    IF ~probeIn.privileged
         /\ \A i \in 1 .. Len(probeIn.namespaces) : probeIn.namespaces[i].Type # "user"
    THEN /\ Len(probeOut.r) = Len(probeIn.namespaces) + 1
         /\ SubSeq(probeOut.r, 1, Len(probeIn.namespaces)) = probeIn.namespaces
         /\ probeOut.r[Len(probeOut.r)] = [Type |-> "user", Path |-> ""]
    ELSE probeOut.r = probeIn.namespaces

\* C35 happens: an unprivileged runtime got a spec with a pid and a mount
\* namespace, and a third namespace was added
C35_UserNamespaceAdded ==
  /\ probeOut.fn = "namespaces" /\ ~probeIn.privileged
  /\ Len(probeIn.namespaces) = 2
  /\ probeIn.namespaces[1].Type = "pid" /\ probeIn.namespaces[2].Type = "mount"
  /\ Len(probeOut.r) = 3 /\ probeOut.r[3].Type = "user"

C38_NoTakeover ==
  [][\A cfg \in LifecycleConfigs, kind \in CreateKinds, p \in MonitorPids :
       op = Idle /\ "config" \in files[cfg.ContainerID] /\ checkConfig(cfg).err = "nil"
         /\ Create(cfg, kind, p) =>
           /\ op' = Idle
           /\ last'.res = "file exists" /\ last'.wrote = {}
           /\ UNCHANGED <<dir, files, snap, mon, monPid, lxcState, init, fifoOfInit,
                          cgroup, released>>
           /\ ContainerState(cfg.ContainerID)' = ContainerState(cfg.ContainerID)]_vars

\* C38 happens: Create was refused for the id of a container whose monitor
\* and init process run
C38_RunningContainerKept ==
  /\ op = Idle /\ last.name = "Create" /\ last.res = "file exists"
  /\ mon[last.id] = "alive" /\ lxcState[last.id] = "RUNNING"
  /\ init[last.id] \in InitLive
  /\ {"config", "syncfifo"} \subseteq files[last.id]

\* C39 as stated: for every device list writeDevices ends without crash
\* and without error, and devices.txt has one line per device, in order,
\* with the device's path, its FileMode when set and 0600 otherwise, its
\* UID when set and the process UID otherwise, and its GID when set and
\* the process GID otherwise.
C39_DevicesTxt ==
  probeOut.fn = "devices" =>
    /\ probeOut.r.err = "nil"
    /\ Len(probeOut.r.lines) = Len(probeIn.devices)
    /\ \A i \in 1 .. Len(probeIn.devices) :
         probeOut.r.lines[i] =
           [path |-> probeIn.devices[i].Path,
            mode |-> IF probeIn.devices[i].FileMode = <<>> THEN "600"
                     ELSE probeIn.devices[i].FileMode[1],
            uid |-> IF probeIn.devices[i].UID = <<>> THEN probeIn.user.UID
                    ELSE probeIn.devices[i].UID[1],
            gid |-> IF probeIn.devices[i].GID = <<>> THEN probeIn.user.GID
                    ELSE probeIn.devices[i].GID[1]]
====
